---- MODULE Spec2Model ----
(***************************************************************************)
(* Model of the hypothesis validation and task execution engine:           *)
(*   Orchestrator._order_tasks  (src/src/orchestrator/orchestrator.py)     *)
(*   EvaluatorAgent.validate    (src/src/agents/evaluator.py)              *)
(*   Orchestrator.run           (src/src/orchestrator/orchestrator.py)     *)
(*                                                                         *)
(* Numbers are scaled integers: p-values in 1/1000, effect sizes and       *)
(* confidences in 1/100, relative changes in whole percent.                *)
(***************************************************************************)
EXTENDS Integers, Sequences, FiniteSets, TLC

VARIABLES
    pc,                 \* control point of the operation in progress
    entry,              \* which operation was called: order_tasks, validate, run
    tasks,              \* the task objects handed to _order_tasks
    sorted_tasks,       \* _order_tasks: sorted(tasks, key=(priority, id))
    idx,                \* _order_tasks: position of `for t in sorted_tasks`
    ordered,            \* _order_tasks: the output list (task ids, in order)
    visited,            \* _order_tasks: finished nodes
    temp,               \* _order_tasks: nodes whose visit is in progress
    stack,              \* _order_tasks: call stack of visit(), innermost last
    log,                \* logger.warning lines written by _order_tasks
    evaluator,          \* the EvaluatorAgent's thresholds, once constructed
    vcall,              \* a direct call of EvaluatorAgent.validate: inputs and outcome
    fcall,              \* a direct call of a module-level function: inputs and outcome
    rng_stream,         \* what np.random.default_rng(42) yields, once it was drawn from
    plan_raw,           \* run: the tasks of the plan as the planner parsed them
    ti,                 \* run: position of `for task in ordered_tasks`
    hypotheses,         \* run: the hypotheses of the task in progress
    hi,                 \* run: position of `for hyp in hypotheses`
    insights_results,   \* run: the result list
    creatives_results,  \* run: the creative outputs
    errors,             \* run_meta["errors"]
    error_hyp,          \* history: for every ledger error, the position in
                        \* `evaluated` of the hypothesis in hand, 0 when none
    tasks_executed,     \* run_meta["tasks_executed"]
    generated,          \* history: every hypothesis a generate call returned
    evaluated,          \* history: every evaluator.validate call of run
    gen_failed,         \* history: the tasks whose generate call raised
    creative_calls      \* history: every generate_for_campaign call

ovars == <<tasks, sorted_tasks, idx, ordered, visited, temp, stack, log>>
evars == <<evaluator, vcall, fcall, rng_stream>>
rvars == <<plan_raw, ti, hypotheses, hi, insights_results, creatives_results,
           errors, error_hyp, tasks_executed, generated, evaluated, gen_failed,
           creative_calls>>
vars == <<pc, entry, tasks, sorted_tasks, idx, ordered, visited, temp, stack, log,
          evaluator, vcall, fcall, rng_stream, plan_raw, ti, hypotheses, hi, insights_results,
          creatives_results, errors, error_hyp, tasks_executed, generated, evaluated,
          gen_failed, creative_calls>>

---------------------------------------------------------------------------
(* Bounds of the model *)

\* priorities range over 1..MaxPriority
MaxPriority == 2
\* the generator returns at most MaxRunHyps hypotheses over one run
MaxRunHyps == 2

\* ids of the tasks of an input, and a depends_on id that matches no task
TaskIds == {"t1", "t2", "t3"}
DanglingIds == {"tx"}
\* Python orders the ids as strings; "t1" < "t2" < "t3" < "tx"
IdRank == [i \in TaskIds \cup DanglingIds |->
             CASE i = "t1" -> 1 [] i = "t2" -> 2 [] i = "t3" -> 3 [] OTHER -> 4]

\* a task declares no, one or two dependencies
DepChoices == {{}} \cup {{a, b} : a, b \in TaskIds \cup DanglingIds}

---------------------------------------------------------------------------
(* Orchestrator._order_tasks *)

\* id_to_task = {t.id: t for t in tasks}: the ids that name a task
IdToTaskKeys(T) == {t.id : t \in T}

\* deps = {t.id: set(getattr(t, "depends_on", []) or []) for t in tasks}
DepsOf(T, node_id) == (CHOOSE t \in T : t.id = node_id).depends_on

\* key=lambda x: (getattr(x, "priority", 100), x.id), compared as tuples
KeyLeq(t, u) ==
    \/ t.priority < u.priority
    \/ t.priority = u.priority /\ IdRank[t.id] <= IdRank[u.id]

\* sorted(tasks, key=...)
RECURSIVE SortTasks(_)
SortTasks(T) ==
    IF T = {} THEN <<>>
    ELSE LET m == CHOOSE t \in T : \A u \in T : KeyLeq(t, u)
         IN <<m>> \o SortTasks(T \ {m})

SeqToSet(s) == {s[i] : i \in 1..Len(s)}

\* visit() without line 91-92: a finished node is visited again
VisitCallNoVisitedCheck(T, node_id, stk) ==
    IF node_id \in temp
    THEN /\ log' = Append(log, [level |-> "warning", what |-> "cycle", at |-> node_id])
         /\ stack' = stk
         /\ UNCHANGED temp
    ELSE /\ temp' = temp \cup {node_id}
         /\ stack' = Append(stk, [node |-> node_id, todo |-> DepsOf(T, node_id)])
         /\ UNCHANGED log

\* visit() without line 95: the cyclic edge is dropped silently
VisitCallNoWarning(T, node_id, stk) ==
    IF node_id \in visited \/ node_id \in temp
    THEN /\ stack' = stk
         /\ UNCHANGED <<temp, log>>
    ELSE /\ temp' = temp \cup {node_id}
         /\ stack' = Append(stk, [node |-> node_id, todo |-> DepsOf(T, node_id)])
         /\ UNCHANGED log

\* The head of visit(node_id), lines 91-97: return when visited, warn and return
\* when the visit of node_id is in progress, else mark it and start on its deps.
VisitCall(T, node_id, stk) ==
    IF node_id \in visited
    THEN /\ stack' = stk
         /\ UNCHANGED <<temp, log>>
    ELSE IF node_id \in temp
    THEN /\ log' = Append(log, [level |-> "warning", what |-> "cycle", at |-> node_id])
         /\ stack' = stk
         /\ UNCHANGED temp
    ELSE /\ temp' = temp \cup {node_id}
         /\ stack' = Append(stk, [node |-> node_id, todo |-> DepsOf(T, node_id)])
         /\ UNCHANGED log

\* _order_tasks(tasks) is called: lines 83-88 and 106
BeginOrder(T) ==
    /\ tasks' = T
    /\ sorted_tasks' = SortTasks(T)
    /\ idx' = 1
    /\ ordered' = <<>>
    /\ visited' = {}
    /\ temp' = {}
    /\ stack' = <<>>
    /\ log' = <<>>

\* a direct call of _order_tasks on task objects that carry depends_on
CallOrderTasks ==
    /\ pc = "idle"
    /\ \E I \in SUBSET TaskIds :
       \E pr \in [I -> 1..MaxPriority], dp \in [I -> DepChoices] :
          BeginOrder({[id |-> i, priority |-> pr[i], depends_on |-> dp[i],
                       scope |-> "all_campaigns"] : i \in I})
    /\ entry' = "order_tasks"
    /\ pc' = "visit_loop"
    /\ UNCHANGED <<evars, rvars>>

\* for t in sorted_tasks: visit(t.id)   (lines 107-108)
TopVisit ==
    /\ pc = "visit_loop"
    /\ stack = <<>>
    /\ idx <= Len(sorted_tasks)
    /\ VisitCall(tasks, sorted_tasks[idx].id, stack)
    /\ idx' = idx + 1
    /\ UNCHANGED <<pc, entry, tasks, sorted_tasks, ordered, visited, evars, rvars>>

\* lines 98-100 without the recursive call: dependencies are not visited first
VisitDepNoRecursion ==
    /\ pc = "visit_loop"
    /\ stack # <<>>
    /\ LET top == stack[Len(stack)] IN
       \E d \in top.todo :
          stack' = [stack EXCEPT ![Len(stack)].todo = top.todo \ {d}]
    /\ UNCHANGED <<pc, entry, tasks, sorted_tasks, idx, ordered, visited, temp, log, evars, rvars>>

\* for d in deps.get(node_id, []): if d in id_to_task: visit(d)   (lines 98-100)
\* deps[node_id] is a Python set: its iteration order is not fixed.
VisitDep ==
    /\ pc = "visit_loop"
    /\ stack # <<>>
    /\ LET top == stack[Len(stack)] IN
       \E d \in top.todo :
          LET rest == [stack EXCEPT ![Len(stack)].todo = top.todo \ {d}] IN
          IF d \in IdToTaskKeys(tasks)
          THEN VisitCall(tasks, d, rest)
          ELSE /\ stack' = rest
               /\ UNCHANGED <<temp, log>>
    /\ UNCHANGED <<pc, entry, tasks, sorted_tasks, idx, ordered, visited, evars, rvars>>

\* the tail of visit(node_id), lines 101-103
VisitReturn ==
    /\ pc = "visit_loop"
    /\ stack # <<>>
    /\ LET top == stack[Len(stack)] IN
       /\ top.todo = {}
       /\ temp' = temp \ {top.node}
       /\ visited' = visited \cup {top.node}
       /\ ordered' = Append(ordered, top.node)
    /\ stack' = SubSeq(stack, 1, Len(stack) - 1)
    /\ UNCHANGED <<pc, entry, tasks, sorted_tasks, idx, log, evars, rvars>>

\* for t in sorted_tasks: if t not in ordered: ordered.append(t)   (lines 110-112)
RECURSIVE AppendMissed(_, _)
AppendMissed(out, rest) ==
    IF rest = <<>> THEN out
    ELSE AppendMissed(IF Head(rest).id \in SeqToSet(out) THEN out
                      ELSE Append(out, Head(rest).id),
                      Tail(rest))

\* lines 109-113: the visits are over, _order_tasks returns
OrderReturn ==
    /\ pc = "visit_loop"
    /\ stack = <<>>
    /\ idx > Len(sorted_tasks)
    /\ ordered' = AppendMissed(ordered, sorted_tasks)
    /\ pc' = IF entry = "run" THEN "task_loop" ELSE "done"
    /\ UNCHANGED <<entry, tasks, sorted_tasks, idx, visited, temp, stack, log, evars, rvars>>

---------------------------------------------------------------------------
(* EvaluatorAgent *)

\* DEFAULTS, in the model's units
DEFAULT_P_VALUE_THRESHOLD == 50
DEFAULT_CTR_DROP_PCT_THRESHOLD == 20
DEFAULT_MIN_SAMPLES_FOR_TTEST == 10
DEFAULT_BOOTSTRAP_ITERS == 2000
DEFAULT_ROLLING_WINDOW_DAYS == 7

\* a p-value that is not a number (ttest_ind on two equal constant segments)
PNaN == -1

\* None, where the code holds None or a string
None == "None"

\* values a configuration gives to bootstrap_iters and rolling_window_days
ConfiguredBootstrapIters == 500
ConfiguredRollingWindowDays == 3

\* config["thresholds"]: the keys present and their values
Thresholds(keys, p, c, m) ==
    [keys |-> keys,
     vals |-> [p_value_threshold |-> p, ctr_drop_pct |-> c,
               ctr_drop_pct_threshold |-> c, min_samples_for_ttest |-> m,
               bootstrap_iters |-> ConfiguredBootstrapIters,
               rolling_window_days |-> ConfiguredRollingWindowDays]]
Configs ==
    { Thresholds({}, 0, 0, 0),
      Thresholds({"p_value_threshold"}, 5, 0, 0),
      Thresholds({"ctr_drop_pct"}, 0, 30, 0),
      Thresholds({"ctr_drop_pct_threshold"}, 0, 30, 0),
      Thresholds({"min_samples_for_ttest"}, 0, 0, 2),
      Thresholds({"bootstrap_iters", "rolling_window_days"}, 0, 0, 0) }

\* thresh.get(key, default)
Get(thresh, key, default) ==
    IF key \in thresh.keys THEN thresh.vals[key] ELSE default

\* EvaluatorAgent.__init__ without the configured p_value_threshold
EvaluatorInitIgnoresConfig(thresh) ==
    [p_value_threshold |-> DEFAULT_P_VALUE_THRESHOLD,
     ctr_drop_pct_threshold |-> DEFAULT_CTR_DROP_PCT_THRESHOLD,
     min_samples_for_ttest |-> DEFAULT_MIN_SAMPLES_FOR_TTEST,
     bootstrap_iters |-> DEFAULT_BOOTSTRAP_ITERS,
     rolling_window_days |-> DEFAULT_ROLLING_WINDOW_DAYS]

\* EvaluatorAgent.__init__, lines 107-116
EvaluatorInit(thresh) ==
    [p_value_threshold |->
        Get(thresh, "p_value_threshold", DEFAULT_P_VALUE_THRESHOLD),
     ctr_drop_pct_threshold |->
        Get(thresh, "ctr_drop_pct", DEFAULT_CTR_DROP_PCT_THRESHOLD),
     min_samples_for_ttest |->
        Get(thresh, "min_samples_for_ttest", DEFAULT_MIN_SAMPLES_FOR_TTEST),
     bootstrap_iters |->
        Get(thresh, "bootstrap_iters", DEFAULT_BOOTSTRAP_ITERS),
     rolling_window_days |->
        Get(thresh, "rolling_window_days", DEFAULT_ROLLING_WINDOW_DAYS)]

NoEvaluator == [p_value_threshold |-> 0, ctr_drop_pct_threshold |-> 0,
                min_samples_for_ttest |-> 0, bootstrap_iters |-> 0,
                rolling_window_days |-> 0]

Abs(x) == IF x < 0 THEN -x ELSE x
Max(a, b) == IF a >= b THEN a ELSE b
Min(a, b) == IF a <= b THEN a ELSE b

\* p_value < bound, false when p_value is NaN
PLess(p_value, bound) == p_value # PNaN /\ p_value < bound

\* What data_agent.get_time_series does, as _prepare_series sees it:
\*   raises   an exception inside the try (the fetch, or the cast to float)
\*   none     returns None
\*   frame    returns a frame of `rows` rows, with or without the metric column
\*   pair     returns (frame, err)
Ts(kind, rows, has_metric, err) ==
    [kind |-> kind, rows |-> rows, has_metric |-> has_metric, err |-> err]

\* _prepare_series, lines 159-191: (values.size, err)
PrepareSeries(ts) ==
    IF ts.kind = "raises"
    THEN [size |-> 0, err |-> "error_preparing_series"]
    ELSE IF ts.kind = "pair" /\ ts.err \notin {None, ""}
    THEN [size |-> 0, err |-> ts.err]
    ELSE IF ts.kind = "none" \/ ts.rows = 0
    THEN [size |-> 0, err |-> "timeseries_empty"]
    ELSE IF ~ts.has_metric
    THEN [size |-> 0, err |-> "metric_missing"]
    ELSE [size |-> ts.rows, err |-> None]

\* validate, line 268: the scope handed to _prepare_series
ValidateScope == "all_campaigns"

\* _prepare_series, line 161: the campaign argument of get_time_series
SeriesCampaign(scope) ==
    IF scope # "" /\ scope # "all_campaigns" THEN scope ELSE None

\* int(n * 0.7), line 196, in float64: 0.7 is stored as a value just below
\* 7/10, and for some n the product n * 0.7 rounds to the double just below
\* the integer 7n/10, so that int() gives one less. Below 330 these n are 90,
\* 170 and 180 (90 * 0.7 = 62.99999999999999).
IntOfSeventyPercent(n) ==
    (7 * n) \div 10 - (IF n \in {90, 170, 180} THEN 1 ELSE 0)

\* _split_baseline_test, line 196: idx = max(1, int(n * 0.7))
SplitIndex(n) == Max(1, IntOfSeventyPercent(n))

\* _split_baseline_test, line 197: values[:idx], values[idx:]
SplitBaselineTest(values) ==
    LET n == Len(values)
        at == Min(SplitIndex(n), n)
    IN [baseline |-> SubSeq(values, 1, at), test |-> SubSeq(values, at + 1, n)]

\* _decide_status with the strong-evidence rule left out
DecideStatusNoStrongRule(ev, p_value, relative_change_pct, effect_size, n_total) ==
    IF PLess(p_value, ev.p_value_threshold)
       /\ Abs(relative_change_pct) >= ev.ctr_drop_pct_threshold
    THEN "VALIDATED"
    ELSE IF PLess(p_value, ev.p_value_threshold)
    THEN "INCONCLUSIVE"
    ELSE "REFUTED"

\* _decide_status, lines 207-219
DecideStatus(ev, p_value, relative_change_pct, effect_size, n_total) ==
    IF PLess(p_value, 10) /\ Abs(effect_size) >= 50 /\ n_total >= 30
    THEN "VALIDATED"
    ELSE IF PLess(p_value, ev.p_value_threshold)
            /\ Abs(relative_change_pct) >= ev.ctr_drop_pct_threshold
    THEN "VALIDATED"
    ELSE IF PLess(p_value, ev.p_value_threshold)
    THEN "INCONCLUSIVE"
    ELSE "REFUTED"

\* lines 237-238 left out: no penalty for a small sample
CalibrateSumNoSamplePenalty(initial, p_value, effect_size, n_total) ==
    initial
    + (IF PLess(p_value, 10) THEN 25 ELSE IF PLess(p_value, 50) THEN 12 ELSE -12)
    + (IF Abs(effect_size) >= 80 THEN 20 ELSE IF Abs(effect_size) >= 50 THEN 10 ELSE 0)

\* the adjustments of _calibrate_confidence, lines 223-238
CalibrateSum(initial, p_value, effect_size, n_total) ==
    initial
    + (IF PLess(p_value, 10) THEN 25 ELSE IF PLess(p_value, 50) THEN 12 ELSE -12)
    + (IF Abs(effect_size) >= 80 THEN 20 ELSE IF Abs(effect_size) >= 50 THEN 10 ELSE 0)
    - (IF n_total < 30 THEN 15 ELSE 0)

\* _calibrate_confidence without the clip of line 240
CalibrateConfidenceNoClip(initial, p_value, effect_size, n_total) ==
    CalibrateSum(initial, p_value, effect_size, n_total)

\* _calibrate_confidence, line 240: max(0.0, min(1.0, conf))
CalibrateConfidence(initial, p_value, effect_size, n_total) ==
    Max(0, Min(100, CalibrateSum(initial, p_value, effect_size, n_total)))

\* an optional number: None, or a value
NoneNum == [is_none |-> TRUE, value |-> 0]
Num(x) == [is_none |-> FALSE, value |-> x]

\* _compute_impact with the comparisons of lines 146 and 150 not strict
ComputeImpactNotStrict(delta_pct, effect_size, p_value) ==
    IF delta_pct.is_none THEN "medium"
    ELSE IF Abs(delta_pct.value) >= 25 /\ Abs(effect_size) >= 50 /\ PLess(p_value, 50)
    THEN "high"
    ELSE IF Abs(delta_pct.value) >= 10 /\ Abs(effect_size) >= 30
    THEN "medium"
    ELSE "low"

\* _compute_impact, lines 139-153
ComputeImpact(delta_pct, effect_size, p_value) ==
    IF delta_pct.is_none THEN "medium"
    ELSE IF Abs(delta_pct.value) > 25 /\ Abs(effect_size) > 50 /\ PLess(p_value, 50)
    THEN "high"
    ELSE IF Abs(delta_pct.value) > 10 /\ Abs(effect_size) > 30
    THEN "medium"
    ELSE "low"

\* the steps of validate after the fetch, in the order the code runs them
StatSteps == <<"split", "test", "relative_change", "effect_size", "change_point",
               "decide", "calibrate", "impact">>
StepsUpTo(name) ==
    SubSeq(StatSteps, 1, CHOOSE k \in 1..Len(StatSteps) : StatSteps[k] = name)

\* validate, lines 275-284: the early return
InsufficientDataResult(hyp, prep) ==
    [hypothesis_id |-> hyp.id,
     validation |-> [error |-> IF prep.err \notin {None, ""} THEN prep.err
                               ELSE "too few samples"],
     evidence |-> <<>>,
     impact |-> "low",
     confidence_final |-> 20,
     status |-> "INCONCLUSIVE",
     notes |-> [text |-> "Insufficient data for evaluation", driver |-> hyp.driver]]

\* validate, lines 350-365: the fallback of the except clause
ExceptionResult(hyp, message) ==
    [hypothesis_id |-> hyp.id,
     validation |-> [error |-> message],
     evidence |-> <<>>,
     impact |-> "low",
     confidence_final |-> 10,
     status |-> "INCONCLUSIVE",
     notes |-> [text |-> "Exception during evaluation", error |-> message]]

\* line 292 with `or`: one segment of min_samples_for_ttest points is enough
MethodForEitherSegment(ev, n_baseline, n_test) ==
    IF n_baseline >= ev.min_samples_for_ttest \/ n_test >= ev.min_samples_for_ttest
    THEN "t-test" ELSE "bootstrap"

\* validate, lines 292-298: the choice of the test
MethodFor(ev, n_baseline, n_test) ==
    IF n_baseline >= ev.min_samples_for_ttest /\ n_test >= ev.min_samples_for_ttest
    THEN "t-test" ELSE "bootstrap"

\* seed: int = 42 (line 47); validate passes no seed (line 297)
BootstrapSeed == 42

\* lines 293 and 297: the test that is run and, for the bootstrap, the
\* arguments n_iter and seed of bootstrap_pvalue
NoTestCall == [method |-> "none", n_iter |-> 0, seed |-> 0]
TestCall(ev, n_baseline, n_test) ==
    IF MethodFor(ev, n_baseline, n_test) = "t-test"
    THEN [method |-> "t-test", n_iter |-> 0, seed |-> 0]
    ELSE [method |-> "bootstrap", n_iter |-> ev.bootstrap_iters,
          seed |-> BootstrapSeed]

\* the test a validate call has run on a usable series of `size` values: the
\* test of lines 292-298 comes before every later step, so a call that fails
\* in a later step has run it; a call that fails in the split or in the test
\* itself has no test to show
TestRun(ev, size, fault) ==
    IF fault \in {"split", "test"} THEN NoTestCall
    ELSE TestCall(ev, SplitIndex(size), size - SplitIndex(size))

\* validate, lines 287-348: the result computed for a baseline segment of
\* n_baseline and a test segment of n_test values. st holds what numpy and scipy
\* return for the series: the p-value, Cohen's d, the relative change in percent
\* of line 302 (rel), whether the baseline mean is 0, and the change in percent
\* of line 124 (delta), which divides by the baseline mean itself.
EvaluateSegments(ev, hyp, n_baseline, n_test, st) ==
    LET n_total == n_baseline + n_test
        method == MethodFor(ev, n_baseline, n_test)
        delta_pct == IF st.baseline_zero THEN NoneNum ELSE Num(st.delta)
    IN [hypothesis_id |-> hyp.id,
        validation |-> [metric |-> "ctr", method |-> method,
                        relative_change_pct |-> st.rel, p_value |-> st.p,
                        effect_size |-> st.d,
                        n_baseline |-> n_baseline, n_test |-> n_test],
        evidence |-> [ctr_delta_pct |-> delta_pct, effect_size |-> st.d,
                      p_value |-> st.p,
                      n_baseline |-> n_baseline, n_test |-> n_test],
        impact |-> ComputeImpact(delta_pct, st.d, st.p),
        confidence_final |->
            CalibrateConfidence(hyp.initial_confidence, st.p, st.d, n_total),
        status |-> DecideStatus(ev, st.p, st.rel, st.d, n_total),
        notes |-> [text |-> "Evaluated", driver |-> hyp.driver, method |-> method]]

\* validate, lines 286-348: the split of line 286, then the statistics
ComputedResult(ev, hyp, n, st) ==
    EvaluateSegments(ev, hyp, SplitIndex(n), n - SplitIndex(n), st)

\* validate whose except clause re-raises
ValidateReraises(ev, hyp, ts, st, fault) ==
    LET prep == PrepareSeries(ts) IN
    IF prep.err \notin {None, ""} \/ prep.size < 2
    THEN [raised |-> FALSE, steps |-> <<>>, test |-> NoTestCall,
          result |-> InsufficientDataResult(hyp, prep)]
    ELSE IF fault # "none"
    THEN [raised |-> TRUE, steps |-> StepsUpTo(fault),
          test |-> TestRun(ev, prep.size, fault),
          result |-> <<>>]
    ELSE [raised |-> FALSE, steps |-> StatSteps,
          test |-> TestRun(ev, prep.size, fault),
          result |-> ComputedResult(ev, hyp, prep.size, st)]

\* validate that runs the statistics on whatever it fetched
ValidateNoEarlyReturn(ev, hyp, ts, st, fault) ==
    LET prep == PrepareSeries(ts) IN
    IF fault # "none"
    THEN [raised |-> FALSE, steps |-> StepsUpTo(fault),
          test |-> TestRun(ev, prep.size, fault),
          result |-> ExceptionResult(hyp, fault)]
    ELSE [raised |-> FALSE, steps |-> StatSteps,
          test |-> TestRun(ev, prep.size, fault),
          result |-> ComputedResult(ev, hyp, prep.size, st)]

\* EvaluatorAgent.validate, lines 243-365. fault names the step of lines 286-332
\* in which an exception is raised ("none": no step raises); steps lists the
\* statistical steps that were entered.
Validate(ev, hyp, ts, st, fault) ==
    LET prep == PrepareSeries(ts) IN
    IF prep.err \notin {None, ""} \/ prep.size < 2
    THEN [raised |-> FALSE, steps |-> <<>>, test |-> NoTestCall,
          result |-> InsufficientDataResult(hyp, prep)]
    ELSE IF fault # "none"
    THEN [raised |-> FALSE, steps |-> StepsUpTo(fault),
          test |-> TestRun(ev, prep.size, fault),
          result |-> ExceptionResult(hyp, fault)]
    ELSE [raised |-> FALSE, steps |-> StatSteps,
          test |-> TestRun(ev, prep.size, fault),
          result |-> ComputedResult(ev, hyp, prep.size, st)]

(* Inputs of a direct validate call *)

\* schema Hypothesis: id, driver, initial_confidence in [0, 1]
Hyp(id, driver, initial_confidence) ==
    [id |-> id, driver |-> driver, initial_confidence |-> initial_confidence]
InitialConfidences == {0, 40, 100}
Hypotheses ==
    {Hyp("h1", "creative_fatigue", c) : c \in InitialConfidences}
    \cup {Hyp("h2", "other", c) : c \in InitialConfidences}

SeriesLens == {2, 29, 30, 34}
ProviderOutcomes ==
    {Ts("raises", 0, FALSE, None), Ts("none", 0, FALSE, None),
     Ts("pair", 34, TRUE, "provider_error"), Ts("pair", 34, TRUE, None),
     Ts("frame", 0, TRUE, None), Ts("frame", 1, TRUE, None),
     Ts("frame", 34, FALSE, None)}
    \cup {Ts("frame", n, TRUE, None) : n \in SeriesLens}

PValues == {0, 4, 5, 9, 10, 49, 50, 1000, PNaN}
EffectSizes == {-80, -51, -50, -49, 0, 30, 31, 79}
RelChanges == {-60, -26, -25, -20, -19, 0, 11, 30}
\* a baseline mean of 1e-9 or more, or of 0: line 302 and line 124 divide by
\* the same number, or line 124 is not reached
Stats(p, d, rel, baseline_zero) ==
    [p |-> p, d |-> d, rel |-> rel, baseline_zero |-> baseline_zero, delta |-> rel]
\* a baseline mean below 1e-9 that is not 0: line 302 divides by 1e-9 and line
\* 124 by the mean, and the two changes differ
StatsOffBaseline(p, d, rel, delta) ==
    [p |-> p, d |-> d, rel |-> rel, baseline_zero |-> FALSE, delta |-> delta]
\* <<rel, delta>> of such series: baseline and test means 5e-10 and 2.5e-10,
\* 3.67e-10 and 4.77e-10 (a mean between 0 and 1e-9: the same sign, delta the
\* larger), -1e-9 and -2e-9, -4e-9 and -4.2e-9 (a negative mean: opposite signs)
OffBaselineChanges == {<<-25, -50>>, <<11, 30>>, <<-100, 100>>, <<-20, 5>>}
StatsGrid ==
    {Stats(p, d, rel, z) : p \in PValues, d \in EffectSizes, rel \in RelChanges,
                           z \in BOOLEAN}
    \cup {StatsOffBaseline(p, d, c[1], c[2]) :
             p \in PValues, d \in EffectSizes, c \in OffBaselineChanges}
NoStats == Stats(PNaN, 0, 0, TRUE)
Faults == {"none"} \cup SeqToSet(StatSteps)

\* the series is usable: validate goes past its early return
Usable(ts) == LET prep == PrepareSeries(ts) IN prep.err \in {None, ""} /\ prep.size >= 2

NoCall == [thresholds |-> Thresholds({}, 0, 0, 0), hyp |-> Hyp("", None, 0),
           ts |-> Ts("none", 0, FALSE, None), st |-> NoStats, fault |-> "none",
           out |-> [raised |-> FALSE, steps |-> <<>>, test |-> NoTestCall,
                    result |-> <<>>]]

\* EvaluatorAgent(config).validate(hypothesis, data_agent), called directly
CallValidate ==
    /\ pc = "idle"
    /\ \E thresh \in Configs, hyp \in Hypotheses, ts \in ProviderOutcomes,
          fault \in Faults :
       \E st \in (IF Usable(ts) /\ fault = "none" THEN StatsGrid ELSE {NoStats}) :
          /\ Usable(ts) \/ fault = "none"
          \* bootstrap_pvalue returns a share, never nan
          /\ (Usable(ts) /\ fault = "none" /\ st.p = PNaN) =>
                MethodFor(EvaluatorInit(thresh), SplitIndex(ts.rows),
                          ts.rows - SplitIndex(ts.rows)) = "t-test"
          /\ evaluator' = EvaluatorInit(thresh)
          /\ vcall' = [thresholds |-> thresh, hyp |-> hyp, ts |-> ts, st |-> st,
                       fault |-> fault,
                       out |-> Validate(EvaluatorInit(thresh), hyp, ts, st, fault)]
    /\ entry' = "validate"
    /\ pc' = "done"
    /\ UNCHANGED <<fcall, rng_stream, ovars, rvars>>

\* longest series handed to _split_baseline_test
MaxSplitLen == 91
\* the day of the first reading of a series
FirstDays == {1, 15}
\* a series in date order: the value at position k is the reading of day
\* first + k - 1, named by its day
DailySeries(first, n) == [k \in 1..n |-> first + k - 1]

\* EvaluatorAgent._split_baseline_test called directly
CallSplitBaselineTest ==
    /\ pc = "idle"
    /\ \E n \in 0..MaxSplitLen, first \in FirstDays :
          fcall' = [fn |-> "split_baseline_test", values |-> DailySeries(first, n),
                    res |-> SplitBaselineTest(DailySeries(first, n))]
    /\ entry' = "split_baseline_test"
    /\ pc' = "done"
    /\ UNCHANGED <<evaluator, vcall, rng_stream, ovars, rvars>>

---------------------------------------------------------------------------
(* simple_change_point *)

\* longest series and widest window handed to simple_change_point
MaxSeriesLen == 5
MaxWindow == 2

\* values of a series: ctr readings and nan (PNaN)
SeriesValues == {0, 1, 3, PNaN}
SeriesOfLen(n) == [1..n -> SeriesValues]
AllSeries == UNION {SeriesOfLen(n) : n \in 0..MaxSeriesLen}

NoFunctionCall == [fn |-> "none"]

\* the positions (from 0) of the slice ts_values[lo:hi], 0 <= lo
SliceIdx(n, start, stop) == {i \in 0..(n - 1) : start <= i /\ i < stop}

\* np.nanmean over a slice, as the sum and the count of its numbers;
\* the mean is nan when the count is 0
RECURSIVE SumOver(_, _)
SumOver(values, I) ==
    IF I = {} THEN 0
    ELSE LET i == CHOOSE j \in I : TRUE
         IN (IF values[i + 1] = PNaN THEN 0 ELSE values[i + 1]) + SumOver(values, I \ {i})
CountOver(values, I) == Cardinality({i \in I : values[i + 1] # PNaN})

\* line 76 without the upper limit: every index from window on
ChangePointRangeToEnd(n, window) == window..(n - 1)

\* line 76: range(window, n - window)
ChangePointRange(n, window) == window..(n - window - 1)

\* the loop with `>=` in line 85: a later index of the same size wins
RECURSIVE ScanSplitsLatestOnTies(_, _, _, _)
ScanSplitsLatestOnTies(values, window, todo, best) ==
    IF todo = {} THEN best
    ELSE LET at == CHOOSE i \in todo : \A j \in todo : i <= j
             left == SliceIdx(Len(values), at - window, at)
             right == SliceIdx(Len(values), at, at + window)
             lsum == SumOver(values, left)
             lcnt == CountOver(values, left)
             rsum == SumOver(values, right)
             rcnt == CountOver(values, right)
             num == rsum * lcnt - lsum * rcnt
             den == rcnt * lsum
             better == /\ lcnt # 0 /\ lsum # 0
                       /\ rcnt # 0
                       /\ Abs(num) * best.den >= Abs(best.num) * den
         IN ScanSplitsLatestOnTies(values, window, todo \ {at},
                       IF better THEN [num |-> num, den |-> den, idx |-> Num(at)]
                       ELSE best)

\* lines 76-87: the loop over the candidate indexes in ascending order; best is
\* best_rel as the fraction num/den (den > 0) and best_idx
RECURSIVE ScanSplits(_, _, _, _)
ScanSplits(values, window, todo, best) ==
    IF todo = {} THEN best
    ELSE LET at == CHOOSE i \in todo : \A j \in todo : i <= j
             left == SliceIdx(Len(values), at - window, at)
             right == SliceIdx(Len(values), at, at + window)
             lsum == SumOver(values, left)
             lcnt == CountOver(values, left)
             rsum == SumOver(values, right)
             rcnt == CountOver(values, right)
             \* rel = (right_mean - left_mean) / left_mean
             num == rsum * lcnt - lsum * rcnt
             den == rcnt * lsum
             better == /\ lcnt # 0 /\ lsum # 0
                       /\ rcnt # 0
                       /\ Abs(num) * best.den > Abs(best.num) * den
         IN ScanSplits(values, window, todo \ {at},
                       IF better THEN [num |-> num, den |-> den, idx |-> Num(at)]
                       ELSE best)

\* simple_change_point(ts_values, window), lines 66-92
SimpleChangePoint(values, window) ==
    IF Len(values) < 2 * window
    THEN [best_split |-> NoneNum, relative_change |-> [num |-> 0, den |-> 1],
          method_note |-> "timeseries too short for change-point heuristic"]
    ELSE LET best == ScanSplits(values, window,
                                ChangePointRange(Len(values), window),
                                [num |-> 0, den |-> 1, idx |-> NoneNum])
         IN [best_split |-> best.idx,
             relative_change |-> [num |-> best.num, den |-> best.den],
             method_note |-> "rolling-window heuristic"]

\* simple_change_point called directly
CallSimpleChangePoint ==
    /\ pc = "idle"
    /\ \E values \in AllSeries, window \in 1..MaxWindow :
          fcall' = [fn |-> "simple_change_point", values |-> values, window |-> window,
                    res |-> SimpleChangePoint(values, window)]
    /\ entry' = "simple_change_point"
    /\ pc' = "done"
    /\ UNCHANGED <<evaluator, vcall, rng_stream, ovars, rvars>>

---------------------------------------------------------------------------
(* bootstrap_pvalue *)

\* The generator of line 48, np.random.default_rng(seed), is not computed
\* here. What it yields for a seed is fixed but unknown: a stream of raw
\* values, each one a number of [0, 1), none bound to an earlier one. A raw
\* value u picks reading floor(u * n) of n readings. The values are kept in
\* sixths, one for each interval between the cuts at which the reading picked
\* among 2 or among 3 changes: [0, 1/3), [1/3, 1/2), [1/2, 2/3), [2/3, 1).
RawDenominator == 6
RawSixths == {0, 2, 3, 4}
\* the number of draws of the stream that are followed
StreamLen == 6
Streams == [0..(StreamLen - 1) -> RawSixths]
\* The stream of seed 42 is settled when it is first drawn from.
NoStream == <<>>

\* the raw value of draw number k (from 0)
Raw(stream, k) == stream[k]

\* the reading, from 0, that the raw value u picks among n readings
IndexOf(u, n) == (u * n) \div RawDenominator

\* line 48: every call makes its generator anew from the seed and draws from
\* the start of the stream, however many draws earlier calls made
GeneratorStart(drawn_before) == 0

\* line 59: rng.choice(combined, size=combined.size, replace=True), the draws
\* taken from position `from` of the stream
Resample(combined, stream, from) ==
    [i \in 1..Len(combined) |->
        combined[IndexOf(Raw(stream, from + i - 1), Len(combined)) + 1]]

\* the sum of x[start..stop]
RECURSIVE SeqSum(_, _, _)
SeqSum(x, start, stop) ==
    IF start > stop THEN 0 ELSE x[start] + SeqSum(x, start + 1, stop)

\* np.nanmean(x[n_a:]) - np.nanmean(x[:n_a]) (lines 55 and 60), times
\* n_a * n_b
MeanDiff(x, n_a) ==
    SeqSum(x, n_a + 1, Len(x)) * n_a - SeqSum(x, 1, n_a) * (Len(x) - n_a)

\* bootstrap_pvalue(a, b, n_iter), lines 47-63, on the stream from `start`:
\* the share of the n_iter resamples whose difference of means is at least
\* the observed one, as the fraction num/den
BootstrapPValue(a, b, n_iter, stream, start) ==
    LET combined == a \o b
        n_a == Len(a)
        obs_diff == MeanDiff(combined, n_a)
        hits == {t \in 0..(n_iter - 1) :
                    Abs(MeanDiff(Resample(combined, stream,
                                          start + t * Len(combined)), n_a))
                       >= Abs(obs_diff)}
    IN [num |-> Cardinality(hits), den |-> n_iter]

\* the segments handed to bootstrap_pvalue, 2 or 3 readings together: readings
\* in 1/64, whose sums are exact in float64
BootSegments == {<<1>>, <<1, 3>>}
BootTestSegments == {<<3>>}
\* the numbers of resamples asked for
MaxIters == 2

\* bootstrap_pvalue called directly, a first time and once more
CallBootstrapPValue ==
    /\ \/ pc = "idle"
       \/ pc = "done" /\ entry = "bootstrap_pvalue" /\ fcall.calls = 1
    /\ \E a \in BootSegments, b \in BootTestSegments, n_iter \in 1..MaxIters :
       \E stream \in (IF rng_stream = NoStream THEN Streams ELSE {rng_stream}) :
          LET drawn_before == IF pc = "idle" THEN 0 ELSE fcall.drawn
              call == [a |-> a, b |-> b, n_iter |-> n_iter, seed |-> BootstrapSeed,
                       res |-> BootstrapPValue(a, b, n_iter, stream,
                                               GeneratorStart(drawn_before))]
          IN /\ n_iter * (Len(a) + Len(b)) <= StreamLen
             /\ rng_stream' = stream
             /\ fcall' = [fn |-> "bootstrap_pvalue",
                          calls |-> IF pc = "idle" THEN 1 ELSE 2,
                          first |-> IF pc = "idle" THEN call ELSE fcall.first,
                          last |-> call,
                          drawn |-> drawn_before + n_iter * (Len(a) + Len(b))]
    /\ entry' = "bootstrap_pvalue"
    /\ pc' = "done"
    /\ UNCHANGED <<evaluator, vcall, ovars, rvars>>

---------------------------------------------------------------------------
(* cohen_d and the statistics of two segments *)

\* A segment of ctr readings, as the number of its values 0.10 and 0.04
Seg(c10, c4) == [c10 |-> c10, c4 |-> c4]
SegN(seg) == seg.c10 + seg.c4
\* the sum of the values, in 1/100
SegSum(seg) == 10 * seg.c10 + 4 * seg.c4
IsConstant(seg) == seg.c10 = 0 \/ seg.c4 = 0
\* n times the sum of squared deviations from the mean, in 1/100 squared
SegSS(seg) == 36 * seg.c10 * seg.c4

\* The sign of (mean computed in float64) - (value) for n copies of a value:
\* np.nanmean and np.nanvar add the readings up and divide by n, and the sum
\* of n copies of 0.1 or 0.04 is not always n times the value. The entries are
\* those of IEEE double addition for the lengths used here.
MeanError(seg) ==
    IF seg.c4 = 0 /\ seg.c10 \in {3, 20} THEN 1
    ELSE IF seg.c10 = 0 /\ seg.c4 = 20 THEN 1
    ELSE 0

\* np.nanvar(x, ddof=1) if n > 1 else 0.0 (lines 37-38) is exactly 0.0
VarIsZero(seg) == SegN(seg) <= 1 \/ (IsConstant(seg) /\ MeanError(seg) = 0)

\* a float that may be nan
FNum(x) == [nan |-> FALSE, value |-> x]
FNaN == [nan |-> TRUE, value |-> 0]

\* |d| in 1/100 for d squared = x / y, kept to the bands the evaluator tells
\* apart: 0, below 0.3, 0.3, below 0.5, 0.5, below 0.8, 0.8, above
EffectBand(x, y) ==
    IF x = 0 THEN 0
    ELSE IF 100 * x < 9 * y THEN 15
    ELSE IF 100 * x = 9 * y THEN 30
    ELSE IF 4 * x < y THEN 40
    ELSE IF 4 * x = y THEN 50
    ELSE IF 25 * x < 16 * y THEN 65
    ELSE IF 25 * x = 16 * y THEN 80
    ELSE 200
EffectBands == {0, 15, 30, 40, 50, 65, 80, 200}

\* |d| when a mean difference of some 1/100 is divided by a pooled sd that is
\* only rounding residue (about 1e-17): of the order 1e15
RoundingBlowUp == 1000000

Sign(x) == IF x > 0 THEN 1 ELSE IF x < 0 THEN -1 ELSE 0

\* cohen_d that returns 0 for every pair of constant segments, residue or not
CohenDZeroForConstants(a, b) ==
    IF SegN(a) + SegN(b) - 2 <= 0 \/ (IsConstant(a) /\ IsConstant(b))
    THEN {FNum(0)}
    ELSE {FNum(200)}

\* cohen_d(a, b), lines 29-44: the values it can return. The set has more than
\* one element only where the numerator or the whole result is rounding residue.
CohenD(a, b) ==
    LET na == SegN(a)
        nb == SegN(b)
    IN IF na + nb - 2 <= 0 THEN {FNum(0)}
       ELSE IF VarIsZero(a) /\ VarIsZero(b) THEN {FNum(0)}
       ELSE IF na = 0 \/ nb = 0 THEN {FNaN}
       ELSE LET diff == SegSum(b) * na - SegSum(a) * nb
                pv_num == SegSS(a) * nb + SegSS(b) * na
                pv_den == na * nb * Max(1, na + nb - 2)
            IN IF pv_num # 0 /\ diff # 0
               THEN {FNum(Sign(diff) * EffectBand(diff * diff * pv_den,
                                                  na * na * nb * nb * pv_num))}
               ELSE IF pv_num # 0
               THEN \* equal means: 0, or the rounding of the two sums
                    {FNum(0), FNum(15), FNum(-15)}
               ELSE IF diff # 0
               THEN {FNum(Sign(diff) * RoundingBlowUp)}
               ELSE IF MeanError(a) = MeanError(b)
               THEN {FNum(0)}
               ELSE {FNum(sg * v) : sg \in {-1, 1}, v \in EffectBands \ {0}}

\* relative_change_pct, line 302, in whole percent (towards 0)
RelativeChangePct(a, b) ==
    LET num == (SegSum(b) * SegN(a) - SegSum(a) * SegN(b)) * 100
        den == SegSum(a) * SegN(b)
    IN Sign(num) * (Abs(num) \div den)

\* The p-values lines 292-297 can yield for two segments. scipy's Welch test
\* and the seeded bootstrap are not computed here: where the data do not force
\* the value, every p-value of the grid is possible.
PValueOutcomes(method, a, b) ==
    LET diff == SegSum(b) * SegN(a) - SegSum(a) * SegN(b) IN
    IF method = "bootstrap" THEN PValues \ {PNaN}
    ELSE IF ~(IsConstant(a) /\ IsConstant(b) /\ SegN(a) >= 2 /\ SegN(b) >= 2)
    THEN PValues
    ELSE IF diff # 0 THEN {0}
    ELSE IF VarIsZero(a) /\ VarIsZero(b) THEN {PNaN}
    ELSE IF MeanError(a) = MeanError(b) THEN {1000}
    ELSE PValues

\* the segments handed to the functions: short ones of both values, and
\* constant ones of 3 and of 20 readings
MixCounts == {0, 1, 2}
ShortSegments == {Seg(c10, c4) : c10, c4 \in MixCounts} \cup {Seg(3, 0), Seg(0, 3)}
LongSegments == {Seg(20, 0), Seg(0, 20)}
SegmentPairs == (ShortSegments \X ShortSegments) \cup (LongSegments \X LongSegments)

\* cohen_d called directly
CallCohenD ==
    /\ pc = "idle"
    /\ \E pair \in SegmentPairs :
       \E d \in CohenD(pair[1], pair[2]) :
          fcall' = [fn |-> "cohen_d", a |-> pair[1], b |-> pair[2], res |-> d]
    /\ entry' = "cohen_d"
    /\ pc' = "done"
    /\ UNCHANGED <<evaluator, vcall, rng_stream, ovars, rvars>>

\* lines 287-348 of validate on a baseline and a test segment (the values
\* _split_baseline_test returned): method, p-value, means, relative change and
\* effect size of the two segments, then decision, calibration and result
CallEvaluateSegments ==
    /\ pc = "idle"
    /\ \E thresh \in Configs, hyp \in Hypotheses, pair \in SegmentPairs :
          LET ev == EvaluatorInit(thresh)
              baseline == pair[1]
              test == pair[2]
              method == MethodFor(ev, SegN(baseline), SegN(test))
          IN /\ SegN(baseline) >= 1 /\ SegN(test) >= 1
             /\ \E p \in PValueOutcomes(method, baseline, test),
                   d \in CohenD(baseline, test) :
                   LET st == Stats(p, d.value, RelativeChangePct(baseline, test), FALSE)
                   IN /\ evaluator' = ev
                      /\ vcall' = [thresholds |-> thresh, hyp |-> hyp,
                                   ts |-> Ts("frame", SegN(baseline) + SegN(test),
                                             TRUE, None),
                                   st |-> st, fault |-> "none",
                                   out |-> [raised |-> FALSE, steps |-> StatSteps,
                                            test |-> TestCall(ev, SegN(baseline),
                                                              SegN(test)),
                                            result |-> EvaluateSegments(ev, hyp,
                                               SegN(baseline), SegN(test), st)]]
                      /\ fcall' = [fn |-> "segments", a |-> baseline, b |-> test,
                                   res |-> d]
    /\ entry' = "evaluate_segments"
    /\ pc' = "done"
    /\ UNCHANGED <<rng_stream, ovars, rvars>>

---------------------------------------------------------------------------
(* LLMClient.safe_generate *)

\* retries ranges over 0..MaxRetries
MaxRetries == 2
\* backoff, in 1/10 s
Backoffs == {0, 5, 10}

\* one attempt too many
AttemptsLeftOneMore(call) == call.attempt <= call.retries + 1

\* for attempt in range(retries + 1), line 122
AttemptsLeft(call) == call.attempt <= call.retries

\* safe_generate(prompt, retries, backoff) is called: lines 112-120
CallSafeGenerate ==
    /\ pc = "idle"
    /\ \E retries \in 0..MaxRetries, backoff \in Backoffs :
          fcall' = [fn |-> "safe_generate", retries |-> retries, backoff |-> backoff,
                    attempt |-> 0, calls |-> 0, sleeps |-> <<>>,
                    last_exc |-> None, outcome |-> "running", value |-> None]
    /\ entry' = "safe_generate"
    /\ pc' = "llm_attempt"
    /\ UNCHANGED <<evaluator, vcall, rng_stream, ovars, rvars>>

\* line 127: generate_text returns, and safe_generate returns its result
GenerateTextReturns ==
    /\ pc = "llm_attempt"
    /\ AttemptsLeft(fcall)
    /\ fcall' = [fcall EXCEPT !.calls = @ + 1,
                              !.outcome = "returned",
                              !.value = [result_of_attempt |-> fcall.attempt]]
    /\ pc' = "done"
    /\ UNCHANGED <<entry, evaluator, vcall, rng_stream, ovars, rvars>>

\* lines 129-135: generate_text raises; the exception is kept, the backoff
\* is slept and the loop goes on
GenerateTextRaises ==
    /\ pc = "llm_attempt"
    /\ AttemptsLeft(fcall)
    /\ fcall' = [fcall EXCEPT !.calls = @ + 1,
                              !.last_exc = [exception_of_attempt |-> fcall.attempt],
                              !.sleeps = Append(@, fcall.backoff * (1 + fcall.attempt)),
                              !.attempt = @ + 1]
    /\ UNCHANGED <<pc, entry, evaluator, vcall, rng_stream, ovars, rvars>>

\* lines 137-141: the attempts are used up, raise last_exc
RaiseLastException ==
    /\ pc = "llm_attempt"
    /\ ~AttemptsLeft(fcall)
    /\ fcall' = [fcall EXCEPT !.outcome = "raised", !.value = fcall.last_exc]
    /\ pc' = "done"
    /\ UNCHANGED <<entry, evaluator, vcall, rng_stream, ovars, rvars>>

---------------------------------------------------------------------------
(* PlannerAgent.plan and Orchestrator.run *)

\* a task of the parsed plan JSON
RawTask(id, priority, scope, depends_on) ==
    [id |-> id, priority |-> priority, scope |-> scope, depends_on |-> depends_on]

\* TaskSchema(...), planner.py lines 69-78, schemas.py lines 20-26: the schema
\* declares no depends_on (and no name) field, the keyword is dropped, and
\* getattr(t, "depends_on", []) in _order_tasks yields [].
TaskSchema(raw) ==
    [id |-> raw.id, priority |-> raw.priority, scope |-> raw.scope, depends_on |-> {}]

\* _fallback_plan, planner.py lines 106-127
FallbackPlan ==
    {RawTask("t1", 1, "all_campaigns", {}), RawTask("t2", 2, "all_campaigns", {"t1"})}

RunTaskIds == {"t1", "t2"}
ScopeOf == [i \in RunTaskIds |-> IF i = "t1" THEN "all_campaigns" ELSE "camp_a"]
\* priorities of a plan's tasks: equal, ascending and descending pairs
RunPriorities == {1, 2}
\* the plans the planner returns: the fallback plan, the empty plan, one task,
\* two tasks without dependencies in every priority order, two tasks of which
\* the one with the smaller priority number depends on the other, and two
\* tasks that depend on each other
RawPlans ==
    {FallbackPlan, {}}
    \cup {{RawTask(i, 1, ScopeOf[i], {})} : i \in RunTaskIds}
    \cup {{RawTask(i, pr[i], ScopeOf[i], {}) : i \in RunTaskIds} :
             pr \in [RunTaskIds -> RunPriorities]}
    \cup {{RawTask(i, 1, ScopeOf[i], RunTaskIds \ {i})}
             \cup {RawTask(j, 2, ScopeOf[j], {}) : j \in RunTaskIds \ {i}} :
             i \in RunTaskIds}
    \cup {{RawTask(i, 1, ScopeOf[i], RunTaskIds \ {i}) : i \in RunTaskIds}}

TaskById(id) == CHOOSE t \in tasks : t.id = id

\* InsightAgent.generate, insight_agent.py lines 183-190: the id of a
\* hypothesis is the one its JSON object carries, id=raw.get("id", "hyp_" +
\* uuid), and nothing compares it with the ids of other hypotheses. Ids are
\* named in the order of their first appearance in a run.
HypIdPool == <<"h1", "h2", "h3", "h4">>
\* lines 216-221 keep one hypothesis per text: the texts of one returned list
\* differ, and are named by their place in the list
HypTexts == <<"a", "b", "c", "d">>
Drivers == {"creative_fatigue", "other"}
RunInitialConfidence == 40

\* a Hypothesis as generate returns it
RunHyp(id, text, driver) ==
    Hyp(id, driver, RunInitialConfidence) @@ [hypothesis |-> text]

\* the ids of the hypotheses generated so far in the run
UsedIds(gen) == {gen[k].hyp.id : k \in 1..Len(gen)}
\* the id of one more hypothesis: an id that was used before, by a hypothesis
\* of this list or of an earlier one, or one that was not
IdChoices(used) == used \cup {HypIdPool[Cardinality(used) + 1]}

\* the lists of len hypotheses a generate call can return from place `at` on,
\* when the ids `used` have appeared
RECURSIVE HypLists(_, _, _)
HypLists(used, at, len) ==
    IF len = 0 THEN {<<>>}
    ELSE UNION {{<<RunHyp(id, HypTexts[at], d)>> \o rest :
                    d \in Drivers,
                    rest \in HypLists(used \cup {id}, at + 1, len - 1)} :
                id \in IdChoices(used)}

\* what validate meets when run calls it
RunEvalInputs ==
    {[ts |-> Ts("frame", 34, TRUE, None), st |-> Stats(0, -80, -60, FALSE), fault |-> "none"],
     [ts |-> Ts("frame", 34, TRUE, None), st |-> Stats(1000, 0, 0, FALSE), fault |-> "none"],
     [ts |-> Ts("frame", 1, TRUE, None), st |-> NoStats, fault |-> "none"]}

\* run, lines 143-160: DataAgent.summary() or PlannerAgent.plan() raises and run
\* re-raises it as RuntimeError
CallRunAborted ==
    /\ pc = "idle"
    /\ entry' = "run"
    /\ pc' = "aborted"
    /\ UNCHANGED <<ovars, evars, rvars>>

\* Orchestrator(config).run(query) up to line 162: the planner returns a plan
\* and _order_tasks(plan.tasks) is called
CallRun ==
    /\ pc = "idle"
    /\ \E raw \in RawPlans :
          /\ plan_raw' = raw
          /\ BeginOrder({TaskSchema(t) : t \in raw})
    /\ entry' = "run"
    /\ pc' = "visit_loop"
    /\ UNCHANGED <<evaluator, vcall, fcall, rng_stream, ti, hypotheses, hi, insights_results, creatives_results,
                   errors, error_hyp, tasks_executed, generated, evaluated, gen_failed,
                   creative_calls>>

\* line 185 left out: the list of the task before stays in `hypotheses`
HypothesesAfterFailureStale(previous) == previous

\* line 185: hypotheses = []
HypothesesAfterFailure(previous) == <<>>

\* run, lines 168-186: one task of the loop up to the hypotheses loop
TaskStep ==
    /\ pc = "task_loop"
    /\ ti <= Len(ordered)
    /\ LET task == TaskById(ordered[ti]) IN
       /\ tasks_executed' = Append(tasks_executed,
             [task_id |-> task.id, name |-> "", scope |-> task.scope,
              priority |-> task.priority])
       /\ \/ \E len \in 0..(MaxRunHyps - Len(generated)) :
             \E hs \in HypLists(UsedIds(generated), 1, len) :
                /\ hypotheses' = hs
                /\ generated' = generated \o
                      [k \in 1..Len(hs) |-> [task_id |-> task.id, hyp |-> hs[k]]]
                /\ UNCHANGED <<errors, error_hyp, gen_failed>>
          \/ /\ hypotheses' = HypothesesAfterFailure(hypotheses)
             /\ errors' = Append(errors, [stage |-> "insight_generate",
                                          task_id |-> task.id, error |-> "generate_error"])
             /\ error_hyp' = Append(error_hyp, 0)
             /\ gen_failed' = gen_failed \cup {task.id}
             /\ UNCHANGED generated
    /\ hi' = 1
    /\ IF hypotheses' = <<>>
       THEN ti' = ti + 1 /\ pc' = "task_loop"
       ELSE ti' = ti /\ pc' = "evaluate"
    /\ UNCHANGED <<entry, ovars, evars, plan_raw, insights_results, creatives_results,
                   evaluated, creative_calls>>

\* the record of lines 198-204 as a validated result
SynthesizedValidationValidated(hyp_id, message) ==
    [hypothesis_id |-> hyp_id,
     validation |-> [error |-> message],
     confidence_final |-> 0,
     status |-> "VALIDATED",
     notes |-> [text |-> "Evaluator error", error |-> message]]

\* the record of lines 198-204 with another status
SynthesizedValidationRefuted(hyp_id, message) ==
    [hypothesis_id |-> hyp_id,
     validation |-> [error |-> message],
     confidence_final |-> 0,
     status |-> "REFUTED",
     notes |-> [text |-> "Evaluator error", error |-> message]]

\* run, lines 198-204: the record made when evaluator.validate raised
SynthesizedValidation(hyp_id, message) ==
    [hypothesis_id |-> hyp_id,
     validation |-> [error |-> message],
     confidence_final |-> 0,
     status |-> "INCONCLUSIVE",
     notes |-> [text |-> "Evaluator error", error |-> message]]

\* run, lines 207-211: the result as a dict, with the hypothesis' metadata
Vdict(validation, hyp) ==
    [driver |-> hyp.driver, hypothesis_text |-> hyp.hypothesis] @@ validation

\* run, lines 189-212: evaluator.validate on the next hypothesis, the result
\* appended. The last disjunct is the defensive layer: the call raises.
Evaluate ==
    /\ pc = "evaluate"
    /\ LET task == TaskById(ordered[ti])
           hyp == hypotheses[hi]
       IN \/ \E inp \in RunEvalInputs :
                LET out == Validate(evaluator, hyp, inp.ts, inp.st, inp.fault) IN
                /\ ~out.raised
                /\ insights_results' = Append(insights_results, Vdict(out.result, hyp))
                /\ evaluated' = Append(evaluated,
                      [task_id |-> task.id, hyp |-> hyp, raised |-> FALSE,
                       campaign |-> SeriesCampaign(ValidateScope)])
                /\ UNCHANGED <<errors, error_hyp>>
          \/ /\ errors' = Append(errors,
                   [stage |-> "evaluator.validate", task_id |-> task.id,
                    hypothesis_id |-> hyp.id, error |-> "validate_error"])
             /\ error_hyp' = Append(error_hyp, Len(evaluated) + 1)
             /\ insights_results' = Append(insights_results,
                   Vdict(SynthesizedValidation(hyp.id, "validate_error"), hyp))
             /\ evaluated' = Append(evaluated,
                   [task_id |-> task.id, hyp |-> hyp, raised |-> TRUE,
                    campaign |-> SeriesCampaign(ValidateScope)])
    /\ pc' = "creative"
    /\ UNCHANGED <<entry, ovars, evars, plan_raw, ti, hypotheses, hi, creatives_results,
                   tasks_executed, generated, gen_failed, creative_calls>>

\* the number of candidates generate_for_campaign returns (at most n=4)
CandidatesReturned == 2

\* line 224 and line 226: the campaign handed to generate_for_campaign
CampaignArg(task) ==
    IF task.scope # "" /\ task.scope # "all_campaigns" THEN task.scope ELSE "campaign_1"

\* line 232 with another stage name
CreativeErrorWrongStage(task_id, hyp_id, message) ==
    [stage |-> "creative", task_id |-> task_id, hypothesis_id |-> hyp_id,
     error |-> message]

\* line 232: the ledger entry of a failed creative step
CreativeError(task_id, hyp_id, message) ==
    [stage |-> "creative_generate", task_id |-> task_id, hypothesis_id |-> hyp_id,
     error |-> message]

\* the outer loop does not advance: the task is taken again
NextHypothesisRepeatsTask ==
    /\ hi' = hi + 1
    /\ ti' = ti
    /\ IF hi + 1 > Len(hypotheses) THEN pc' = "task_loop" ELSE pc' = "evaluate"

\* the inner loop steps over one hypothesis
NextHypothesisSkipsOne ==
    /\ hi' = hi + 2
    /\ IF hi + 2 > Len(hypotheses)
       THEN ti' = ti + 1 /\ pc' = "task_loop"
       ELSE ti' = ti /\ pc' = "evaluate"

\* the end of one round of `for hyp in hypotheses`
NextHypothesis ==
    /\ hi' = hi + 1
    /\ IF hi + 1 > Len(hypotheses)
       THEN ti' = ti + 1 /\ pc' = "task_loop"
       ELSE ti' = ti /\ pc' = "evaluate"

\* run, lines 217-232: creative generation for a validated creative_fatigue
Creative ==
    /\ pc = "creative"
    /\ LET task == TaskById(ordered[ti])
           hyp == hypotheses[hi]
           vdict == insights_results[Len(insights_results)]
       IN \/ /\ ~(vdict.status = "VALIDATED" /\ vdict.driver = "creative_fatigue")
             /\ UNCHANGED <<creatives_results, errors, error_hyp, creative_calls>>
          \/ /\ vdict.status = "VALIDATED" /\ vdict.driver = "creative_fatigue"
             /\ creatives_results' = creatives_results \o
                   [k \in 1..CandidatesReturned |->
                       [campaign |-> CampaignArg(task),
                        for_hypothesis |-> Len(evaluated), item |-> k]]
             /\ creative_calls' = Append(creative_calls,
                   [campaign |-> CampaignArg(task), hypothesis_id |-> hyp.id,
                    pos |-> Len(evaluated), raised |-> FALSE])
             /\ UNCHANGED <<errors, error_hyp>>
          \/ /\ vdict.status = "VALIDATED" /\ vdict.driver = "creative_fatigue"
             /\ \E at \in {"get_creatives_sample", "generate_for_campaign"} :
                   /\ errors' = Append(errors, CreativeError(task.id, hyp.id, at))
                   /\ error_hyp' = Append(error_hyp, Len(evaluated))
                   /\ creative_calls' =
                         IF at = "generate_for_campaign"
                         THEN Append(creative_calls,
                                 [campaign |-> CampaignArg(task),
                                  hypothesis_id |-> hyp.id,
                                  pos |-> Len(evaluated), raised |-> TRUE])
                         ELSE creative_calls
             /\ UNCHANGED creatives_results
    /\ NextHypothesis
    /\ UNCHANGED <<entry, ovars, evars, plan_raw, hypotheses, insights_results,
                   tasks_executed, generated, evaluated, gen_failed>>

\* the task loop of lines 168-232 is over
TaskLoopDone == pc = "task_loop" /\ ti > Len(ordered)

\* run, lines 234-267: the artifacts are written; a failing report is recorded
Persist ==
    /\ TaskLoopDone
    /\ \/ UNCHANGED <<errors, error_hyp>>
       \/ /\ errors' = Append(errors, [stage |-> "build_report", error |-> "report_error"])
          /\ error_hyp' = Append(error_hyp, 0)
    /\ pc' = "done"
    /\ UNCHANGED <<entry, ovars, evars, plan_raw, ti, hypotheses, hi, insights_results,
                   creatives_results, tasks_executed, generated, evaluated,
                   gen_failed, creative_calls>>

---------------------------------------------------------------------------
\* nothing has been called: every variable but the evaluator
Idle ==
    /\ pc = "idle"
    /\ entry = "none"
    /\ tasks = {}
    /\ sorted_tasks = <<>>
    /\ idx = 1
    /\ ordered = <<>>
    /\ visited = {}
    /\ temp = {}
    /\ stack = <<>>
    /\ log = <<>>
    /\ vcall = NoCall
    /\ fcall = NoFunctionCall
    /\ rng_stream = NoStream
    /\ plan_raw = {}
    /\ ti = 1
    /\ hypotheses = <<>>
    /\ hi = 1
    /\ insights_results = <<>>
    /\ creatives_results = <<>>
    /\ errors = <<>>
    /\ error_hyp = <<>>
    /\ tasks_executed = <<>>
    /\ generated = <<>>
    /\ evaluated = <<>>
    /\ gen_failed = {}
    /\ creative_calls = <<>>

\* Orchestrator.__init__, lines 38-79: line 74 builds the evaluator from the
\* config, here one that sets no threshold
Init ==
    /\ Idle
    /\ evaluator = EvaluatorInit(Thresholds({}, 0, 0, 0))

\* no Orchestrator is made: EvaluatorAgent(config) is built by the call
InitEvaluator ==
    /\ Idle
    /\ evaluator = NoEvaluator

\* _order_tasks called on its own
NextOrder ==
    \/ CallOrderTasks
    \/ TopVisit
    \/ VisitDep
    \/ VisitReturn
    \/ OrderReturn

\* the evaluator and its functions called on their own
NextEvaluator ==
    \/ CallSplitBaselineTest
    \/ CallSimpleChangePoint
    \/ CallCohenD
    \/ CallEvaluateSegments
    \/ CallBootstrapPValue
    \/ CallValidate

\* a run and the retry helper of its generators. The tasks of a plan carry no
\* depends_on (TaskSchema), so the visit of a run has no dependency to follow
\* and VisitDep has no part in it.
NextRun ==
    \/ CallSafeGenerate
    \/ GenerateTextReturns
    \/ GenerateTextRaises
    \/ RaiseLastException
    \/ CallRunAborted
    \/ CallRun
    \/ TopVisit
    \/ VisitReturn
    \/ OrderReturn
    \/ TaskStep
    \/ Evaluate
    \/ Creative
    \/ Persist

\* every way a result is made: validate called on its own, and a run, which
\* calls validate for each hypothesis and makes a record itself when it raises
NextResults ==
    \/ CallValidate
    \/ CallRunAborted
    \/ CallRun
    \/ TopVisit
    \/ VisitReturn
    \/ OrderReturn
    \/ TaskStep
    \/ Evaluate
    \/ Creative
    \/ Persist

Next == NextOrder \/ NextEvaluator \/ NextRun

Spec == Init /\ [][Next]_vars

\* The three entry points apart. The evaluator and its functions called on
\* their own start with no Orchestrator made.
SpecOrder == Init /\ [][NextOrder]_vars
SpecEvaluator == InitEvaluator /\ [][NextEvaluator]_vars
SpecRun == Init /\ [][NextRun]_vars
SpecResults == Init /\ [][NextResults]_vars

---------------------------------------------------------------------------
(* Properties of _order_tasks *)

TaskIdsOf(T) == {t.id : t \in T}

\* the ids among S's declared dependencies that name a task of T
ExistingDepsOf(T, S) == UNION {DepsOf(T, i) \cap TaskIdsOf(T) : i \in S}

RECURSIVE ReachIn(_, _, _)
ReachIn(T, S, k) ==
    IF k = 0 THEN {}
    ELSE LET N == ExistingDepsOf(T, S) IN N \cup ReachIn(T, N, k - 1)

\* ids reachable from i along one or more dependency edges
Reachable(T, i) == ReachIn(T, {i}, Cardinality(T))
OnCycle(T, i) == i \in Reachable(T, i)
HasCycle(T) == \E t \in T : OnCycle(T, t.id)

Occurrences(s, x) == Cardinality({i \in 1..Len(s) : s[i] = x})
PosIn(s, x) == CHOOSE i \in 1..Len(s) : s[i] = x

\* _order_tasks has returned
OrderReturned == pc \notin {"idle", "visit_loop"}

\* C1: the sequence _order_tasks returns is a permutation of the input tasks:
\* same length, every task exactly once, whatever the priorities and the
\* depends_on sets are (dangling ids, self-dependencies, cycles); and no task is
\* ever emitted twice while the visits are in progress.
C1_OrderIsPermutation ==
    /\ \A t \in tasks : Occurrences(ordered, t.id) <= 1
    /\ OrderReturned =>
          /\ Len(ordered) = Cardinality(tasks)
          /\ \A t \in tasks : Occurrences(ordered, t.id) = 1
          /\ SeqToSet(ordered) = TaskIdsOf(tasks)

C1_Witness ==
    /\ pc = "done" /\ entry = "order_tasks"
    /\ Cardinality(tasks) = 3
    /\ HasCycle(tasks)
    /\ \E t \in tasks : t.depends_on \cap DanglingIds # {}
    /\ \E t \in tasks : t.id \in t.depends_on

\* C2: when the dependency graph over the ids present in the input has no
\* cycle, every task comes after every input task it depends on, whatever the
\* priorities are.
C2_DepsBeforeDependents ==
    (OrderReturned /\ ~HasCycle(tasks)) =>
        \A t \in tasks : \A d \in t.depends_on \cap TaskIdsOf(tasks) :
            PosIn(ordered, d) < PosIn(ordered, t.id)

C2_Witness ==
    /\ pc = "done" /\ entry = "order_tasks"
    /\ Cardinality(tasks) = 3
    /\ ~HasCycle(tasks)
    /\ \E t, u \in tasks :
          /\ u.id \in t.depends_on
          /\ t.priority < u.priority
          /\ PosIn(ordered, u.id) < PosIn(ordered, t.id)

\* C3: with a dependency cycle in the input, _order_tasks still returns (the
\* visits never get stuck and never nest deeper than the number of tasks, and a
\* lookup of id_to_task never misses), at least one cycle warning is logged,
\* and every task of a cycle is emitted exactly once.
C3_CycleTolerated ==
    /\ pc = "visit_loop" =>
          /\ ENABLED (TopVisit \/ VisitDep \/ VisitReturn \/ OrderReturn)
          /\ Len(stack) <= Cardinality(tasks)
          /\ \A k \in 1..Len(stack) : stack[k].node \in TaskIdsOf(tasks)
    /\ (OrderReturned /\ HasCycle(tasks)) =>
          /\ \E k \in 1..Len(log) : log[k].what = "cycle"
          /\ \A t \in tasks : OnCycle(tasks, t.id) => Occurrences(ordered, t.id) = 1

C3_Witness ==
    /\ pc = "done" /\ entry = "order_tasks"
    /\ \E a, b \in tasks :
          /\ a.id # b.id
          /\ a.depends_on = {b.id}
          /\ b.depends_on = {a.id}
          /\ Occurrences(ordered, a.id) = 1
          /\ Occurrences(ordered, b.id) = 1
    /\ Len(log) >= 1

---------------------------------------------------------------------------
(* Properties of EvaluatorAgent.validate *)

Statuses == {"VALIDATED", "REFUTED", "INCONCLUSIVE"}

\* a direct call of validate has returned or raised
ValidateCalled == entry = "validate" /\ pc = "done"
\* ... on a path where the data was unavailable
DataUnavailable == ValidateCalled /\ ~Usable(vcall.ts)
\* ... on a path where a statistical step raised
StepRaised == ValidateCalled /\ Usable(vcall.ts) /\ vcall.fault # "none"
\* ... on the path that computes the verdict
Computed == ValidateCalled /\ Usable(vcall.ts) /\ vcall.fault = "none"

\* C4: validate never propagates an exception: whatever the provider does
\* (series, empty frame, frame without the metric, (frame, error), None, raises)
\* and whichever statistical step raises, it returns a ValidationResult with a
\* status of the three, and on every failure path that result is INCONCLUSIVE
\* with an error entry and a non-empty note.
C4_ValidateNeverRaises ==
    ValidateCalled =>
        /\ ~vcall.out.raised
        /\ vcall.out.result # <<>>
        /\ vcall.out.result.status \in Statuses
        /\ (DataUnavailable \/ StepRaised) =>
              /\ vcall.out.result.status = "INCONCLUSIVE"
              /\ "error" \in DOMAIN vcall.out.result.validation
              /\ vcall.out.result.notes.text # ""

C4_Witness ==
    /\ ValidateCalled
    /\ vcall.ts.kind = "raises"
    /\ ~vcall.out.raised
    /\ vcall.out.result.status = "INCONCLUSIVE"

\* C5: on the computed path the status is the first matching rule of
\*   p < 0.01 and |d| >= 0.5 and n >= 30                      -> VALIDATED
\*   p < p_value_threshold and |rel %| >= ctr_drop threshold  -> VALIDATED
\*   p < p_value_threshold                                    -> INCONCLUSIVE
\*   otherwise                                                -> REFUTED
\* (a NaN p-value is below nothing), and is always one of the three statuses.
C5_DecisionPriority ==
    Computed =>
        LET p == vcall.st.p
            d == vcall.st.d
            rel == vcall.st.rel
            n == vcall.ts.rows
            isnum == p # PNaN
            expected ==
                IF isnum /\ p < 10 /\ Abs(d) >= 50 /\ n >= 30 THEN "VALIDATED"
                ELSE IF isnum /\ p < evaluator.p_value_threshold
                        /\ Abs(rel) >= evaluator.ctr_drop_pct_threshold
                THEN "VALIDATED"
                ELSE IF isnum /\ p < evaluator.p_value_threshold THEN "INCONCLUSIVE"
                ELSE "REFUTED"
        IN /\ vcall.out.result.status = expected
           /\ vcall.out.result.status \in Statuses

\* the strong-evidence rule decides, the threshold rule would not
C5_Witness ==
    /\ Computed
    /\ vcall.st.p = 9 /\ vcall.st.d = -50 /\ vcall.st.rel = 0 /\ vcall.ts.rows = 30
    /\ evaluator.p_value_threshold = 5
    /\ vcall.out.result.status = "VALIDATED"

\* C7: with fewer than 2 points, or when the provider signals an error (empty
\* series, metric missing, error value, exception while fetching), validate
\* returns at once: no statistical step is entered, the result is INCONCLUSIVE
\* with confidence_final 0.2 and empty evidence, and validation.error records
\* the reason; nothing is raised.
C7_InsufficientData ==
    DataUnavailable =>
        LET r == vcall.out.result
            ts == vcall.ts
        IN /\ ~vcall.out.raised
           /\ vcall.out.steps = <<>>
           /\ r.status = "INCONCLUSIVE"
           /\ r.confidence_final = 20
           /\ DOMAIN r.evidence = {}
           /\ r.notes.text = "Insufficient data for evaluation"
           /\ r.validation.error =
                 CASE ts.kind = "raises" -> "error_preparing_series"
                   [] ts.kind = "pair" /\ ts.err # None -> ts.err
                   [] ts.kind = "none" \/ ts.rows = 0 -> "timeseries_empty"
                   [] ~ts.has_metric -> "metric_missing"
                   [] OTHER -> "too few samples"

\* Scenario C: a series of one point
C7_Witness ==
    /\ DataUnavailable
    /\ vcall.ts.kind = "frame" /\ vcall.ts.rows = 1 /\ vcall.ts.has_metric
    /\ vcall.out.result.confidence_final = 20
    /\ vcall.out.result.validation.error = "too few samples"

\* the result carries the hypothesis' driver: ValidationResult has no driver
\* field, the only place validate puts it is the text of notes
CarriesDriver(r, hyp) == "driver" \in DOMAIN r.notes /\ r.notes.driver = hyp.driver

\* C8: when a statistical step raises, validate returns INCONCLUSIVE with
\* confidence_final 0.1 and validation = {"error": message}, and the returned
\* result preserves the hypothesis id and the hypothesis driver.
C8_ExceptionResultKeepsIdAndDriver ==
    StepRaised =>
        LET r == vcall.out.result IN
        /\ ~vcall.out.raised
        /\ r.status = "INCONCLUSIVE"
        /\ r.confidence_final = 10
        /\ r.validation = [error |-> vcall.fault]
        /\ r.hypothesis_id = vcall.hyp.id
        /\ CarriesDriver(r, vcall.hyp)

\* C6: confidence_final of every result is within [0, 1]: on the computed path
\* for every initial_confidence, p-value, effect size and sample count, on the
\* data-unavailable (0.2) and exception (0.1) fallbacks, and for every entry of
\* run's result list, the record run makes itself (0.0) included.
C6_ConfidenceInRange ==
    /\ ValidateCalled =>
          /\ vcall.out.result.confidence_final >= 0
          /\ vcall.out.result.confidence_final <= 100
    /\ \A k \in 1..Len(insights_results) :
          /\ insights_results[k].confidence_final >= 0
          /\ insights_results[k].confidence_final <= 100

\* a run whose result list holds the record run made itself, with confidence
\* 0.0, next to a result validate returned
C6_Witness ==
    /\ entry = "run" /\ pc = "done"
    /\ Len(insights_results) = 2
    /\ evaluated[1].raised /\ ~evaluated[2].raised
    /\ insights_results[1].notes.text = "Evaluator error"
    /\ insights_results[1].confidence_final = 0
    /\ insights_results[2].confidence_final > 0

\* validate called on its own: the sum of the adjustments leaves [0, 1] and is
\* clipped
C6_ClipWitness ==
    /\ Computed
    /\ CalibrateSum(vcall.hyp.initial_confidence, vcall.st.p, vcall.st.d,
                    vcall.ts.rows) > 100
    /\ vcall.out.result.confidence_final = 100

---------------------------------------------------------------------------
(* Properties of Orchestrator.run *)

\* the task loop of run cannot get stuck
RunLoopLive ==
    pc \in {"task_loop", "evaluate", "creative"} =>
        ENABLED (TaskStep \/ Evaluate \/ Creative \/ Persist)
\* the task loop has ended
LoopEnded == entry = "run" /\ (TaskLoopDone \/ pc = "done")

\* C9: when generate raises for a task, run appends one ledger error (stage
\* insight_generate, the task id, the error text), evaluates no hypothesis and
\* adds no result and no creative for that task, does not abort, and goes on to
\* process every remaining task.
C9_GenerationFailureIsolated ==
    entry = "run" =>
        /\ \A x \in gen_failed :
              /\ Cardinality({k \in 1..Len(errors) :
                    /\ errors[k].stage = "insight_generate"
                    /\ errors[k] = [stage |-> "insight_generate", task_id |-> x,
                                    error |-> "generate_error"]}) = 1
              /\ Cardinality({k \in 1..Len(errors) :
                    errors[k].stage # "build_report" /\ errors[k].task_id = x}) = 1
              /\ \A k \in 1..Len(evaluated) : evaluated[k].task_id # x
        /\ Len(insights_results) = Len(evaluated)
        /\ \A c \in 1..Len(creatives_results) :
              creatives_results[c].for_hypothesis \in 1..Len(evaluated)
        /\ gen_failed # {} => pc # "aborted"
        /\ RunLoopLive
        /\ LoopEnded =>
              /\ Len(tasks_executed) = Len(ordered)
              /\ \A k \in 1..Len(ordered) : tasks_executed[k].task_id = ordered[k]

\* the first task's generation failed, the second task was still evaluated
C9_Witness ==
    /\ entry = "run" /\ pc = "done"
    /\ Len(ordered) = 2
    /\ ordered[1] \in gen_failed
    /\ Len(tasks_executed) = 2
    /\ Len(insights_results) >= 1

\* C10: when evaluator.validate raises for a hypothesis, run makes a result
\* with status INCONCLUSIVE and confidence_final 0.0 for that hypothesis id,
\* appends one ledger error (stage evaluator.validate, task id, hypothesis id,
\* error text), appends the result to the result list, and continues: at the
\* end of the loop every generated hypothesis has been evaluated, in order.
C10_EvaluatorFailureSynthesized ==
    entry = "run" =>
        /\ Len(insights_results) = Len(evaluated)
        /\ \A k \in 1..Len(evaluated) :
              evaluated[k].raised =>
                 /\ insights_results[k].status = "INCONCLUSIVE"
                 /\ insights_results[k].confidence_final = 0
                 /\ insights_results[k].hypothesis_id = evaluated[k].hyp.id
                 /\ "error" \in DOMAIN insights_results[k].validation
                 /\ Cardinality({e \in 1..Len(errors) : error_hyp[e] = k}) = 1
                 /\ \A e \in 1..Len(errors) :
                       error_hyp[e] = k =>
                          errors[e] = [stage |-> "evaluator.validate",
                                       task_id |-> evaluated[k].task_id,
                                       hypothesis_id |-> evaluated[k].hyp.id,
                                       error |-> "validate_error"]
        /\ (\E k \in 1..Len(evaluated) : evaluated[k].raised) => pc # "aborted"
        /\ RunLoopLive
        /\ LoopEnded =>
              /\ Len(evaluated) = Len(generated)
              /\ \A k \in 1..Len(generated) : evaluated[k].hyp = generated[k].hyp

\* validate raised for the first hypothesis and the second was evaluated after it
C10_Witness ==
    /\ entry = "run" /\ pc = "done"
    /\ Len(evaluated) = 2
    /\ evaluated[1].raised
    /\ ~evaluated[2].raised
    /\ insights_results[1].confidence_final = 0
    /\ insights_results[2].status = "VALIDATED"

\* Two hypotheses of a run may carry one id: a hypothesis is told from the
\* others by its place k in the order of evaluation.
\* the creative step of the k-th evaluated hypothesis is over
CreativeStepOver(k) == k < Len(evaluated) \/ pc # "creative"
\* the invocations of generate_for_campaign made for the k-th hypothesis
GeneratorCalls(k) ==
    {c \in 1..Len(creative_calls) : creative_calls[c].pos = k}
\* the ledger errors of stage creative_generate recorded for the k-th hypothesis
CreativeErrors(k) ==
    {e \in 1..Len(errors) :
        errors[e].stage = "creative_generate" /\ error_hyp[e] = k}
\* the k-th result asks for creatives
Eligible(k) ==
    /\ insights_results[k].status = "VALIDATED"
    /\ evaluated[k].hyp.driver = "creative_fatigue"

\* C11: for a creative_fatigue hypothesis whose result is VALIDATED run invokes
\* the creative generator exactly once, with the scope of the hypothesis' task
\* as the campaign argument; for every other hypothesis it invokes it zero
\* times. (A creative step that failed is left to C12.)
C11_CreativeOncePerValidatedForTaskScope ==
    entry = "run" =>
        \A k \in 1..Len(evaluated) :
           (CreativeStepOver(k) /\ CreativeErrors(k) = {}) =>
              LET task == TaskById(evaluated[k].task_id)
              IN IF Eligible(k)
                 THEN /\ Cardinality(GeneratorCalls(k)) = 1
                      /\ \A c \in GeneratorCalls(k) :
                            creative_calls[c].campaign = task.scope
                 ELSE GeneratorCalls(k) = {}

\* the invocations of generate_for_campaign for the k-th hypothesis that returned
ReturnedCalls(k) == {c \in GeneratorCalls(k) : ~creative_calls[c].raised}

\* C12: when the creative step of a hypothesis raises (sampling the existing
\* creatives or generate_for_campaign), run appends exactly one ledger error
\* (stage creative_generate, task id, hypothesis id) and no creative for it;
\* the results already appended, the one of that hypothesis included, are
\* never changed; and all remaining hypotheses and tasks are still processed.
C12_CreativeFailureIsolated ==
    /\ [](entry = "run" =>
            /\ \A k \in 1..Len(evaluated) :
                  LET h == evaluated[k].hyp.id IN
                  /\ insights_results[k].hypothesis_id = h
                  /\ \A e \in CreativeErrors(k) :
                        /\ errors[e].task_id = evaluated[k].task_id
                        /\ errors[e].hypothesis_id = h
                        /\ \A c \in 1..Len(creatives_results) :
                              creatives_results[c].for_hypothesis # k
                  /\ CreativeStepOver(k) =>
                        Cardinality(CreativeErrors(k)) + Cardinality(ReturnedCalls(k))
                           = IF Eligible(k) THEN 1 ELSE 0
            /\ RunLoopLive
            /\ LoopEnded =>
                  /\ Len(evaluated) = Len(generated)
                  /\ Len(tasks_executed) = Len(ordered))
    /\ [][/\ Len(insights_results') >= Len(insights_results)
          /\ \A k \in 1..Len(insights_results) :
                insights_results'[k] = insights_results[k]
          /\ pc = "creative" => insights_results' = insights_results]_vars

\* the creative step of the first hypothesis failed, its VALIDATED result is
\* still in the list and a second hypothesis was evaluated after it
C12_Witness ==
    /\ entry = "run" /\ pc = "done"
    /\ Len(evaluated) = 2
    /\ Cardinality(CreativeErrors(1)) = 1
    /\ insights_results[1].status = "VALIDATED"
    /\ insights_results[2].hypothesis_id = evaluated[2].hyp.id
    /\ evaluated[1].task_id # evaluated[2].task_id

\* run is inside or past its task loop
InTaskLoop == entry = "run" /\ pc \in {"task_loop", "evaluate", "creative", "done"}
\* the stages of the ledger errors
ErrorStages == {errors[e].stage : e \in 1..Len(errors)}

\* C13: run processes the tasks in the sequence _order_tasks returned, each
\* once: tasks_executed is at every moment the prefix of that sequence up to
\* the task in hand, and the whole sequence when the loop ends, whatever
\* generator, evaluator or creative call failed.
C13_TasksExecutedInOrder ==
    InTaskLoop =>
        /\ Len(tasks_executed) =
              IF pc \in {"evaluate", "creative"} THEN ti ELSE ti - 1
        /\ Len(tasks_executed) <= Len(ordered)
        /\ \A k \in 1..Len(tasks_executed) : tasks_executed[k].task_id = ordered[k]
        /\ LoopEnded => Len(tasks_executed) = Len(ordered)

\* two tasks in priority order t2, t1, with a failure of each kind on the way
C13_Witness ==
    /\ entry = "run" /\ pc = "done"
    /\ ordered = <<"t2", "t1">>
    /\ {"insight_generate", "evaluator.validate", "creative_generate"} \subseteq ErrorStages
    /\ tasks_executed[1].task_id = "t2" /\ tasks_executed[2].task_id = "t1"

\* C14: the result list holds one result per generated hypothesis in append
\* order: task order first, then the order the generator returned them; the
\* creatives of a hypothesis are all appended before a later hypothesis is
\* evaluated, so they follow the same order.
C14_ResultsInAppendOrder ==
    InTaskLoop =>
        /\ Len(insights_results) = Len(evaluated)
        /\ Len(insights_results) <= Len(generated)
        /\ \A j, k \in 1..Len(generated) :
              j < k => PosIn(ordered, generated[j].task_id)
                          <= PosIn(ordered, generated[k].task_id)
        /\ \A k \in 1..Len(insights_results) :
              /\ insights_results[k].hypothesis_id = generated[k].hyp.id
              /\ insights_results[k].hypothesis_text = generated[k].hyp.hypothesis
              /\ insights_results[k].driver = generated[k].hyp.driver
              /\ CreativeStepOver(k) /\ ReturnedCalls(k) # {} =>
                    Cardinality({c \in 1..Len(creatives_results) :
                       creatives_results[c].for_hypothesis = k})
                       = CandidatesReturned
        /\ \A c \in 1..Len(creatives_results) :
              creatives_results[c].for_hypothesis \in 1..Len(insights_results)
        /\ \A c, d \in 1..Len(creatives_results) :
              c < d => creatives_results[c].for_hypothesis
                          <= creatives_results[d].for_hypothesis
        /\ LoopEnded => Len(insights_results) = Len(generated)

\* two tasks with one hypothesis each, the two under one id, both with creatives
C14_Witness ==
    /\ entry = "run" /\ pc = "done"
    /\ Len(insights_results) = 2
    /\ generated[1].task_id # generated[2].task_id
    /\ generated[1].hyp.id = generated[2].hyp.id
    /\ Len(creatives_results) = 2 * CandidatesReturned
    /\ creatives_results[1].for_hypothesis = 1
    /\ creatives_results[Len(creatives_results)].for_hypothesis = 2

\* The order the claim describes: the depth-first visit of _order_tasks with
\* every choice, the one among the dependencies of a task included, made in
\* ascending (priority, id).
RECURSIVE DetVisit(_, _, _), DetVisitAll(_, _, _)
DetVisit(T, node_id, st) ==
    IF node_id \in st.visited \/ node_id \in st.temp THEN st
    ELSE LET present == {t \in T : t.id \in DepsOf(T, node_id)}
             after == DetVisitAll(T, SortTasks(present),
                                  [st EXCEPT !.temp = @ \cup {node_id}])
         IN [visited |-> after.visited \cup {node_id},
             temp |-> after.temp \ {node_id},
             out |-> Append(after.out, node_id)]
DetVisitAll(T, todo, st) ==
    IF todo = <<>> THEN st
    ELSE DetVisitAll(T, Tail(todo), DetVisit(T, Head(todo).id, st))
DetOrder(T) ==
    DetVisitAll(T, SortTasks(T), [visited |-> {}, temp |-> {}, out |-> <<>>]).out

\* C15: the sequence _order_tasks returns is a function of the task set alone,
\* ties broken by ascending (priority, id): it is the same whatever the order
\* in which the depends_on set of a task is iterated.
C15_OrderIsFunctionOfTaskSet ==
    (entry = "order_tasks" /\ pc = "done") => ordered = DetOrder(tasks)

\* the depends_on ids of T that name no task of T
DanglingRefs(T) == UNION {t.depends_on : t \in T} \ IdToTaskKeys(T)
\* T with the dangling ids taken out of every depends_on
WithoutDangling(T) ==
    {[t EXCEPT !.depends_on = @ \cap IdToTaskKeys(T)] : t \in T}
\* no task has two dependencies among the tasks: the visit order is fixed
AtMostOneDepEach(T) ==
    \A t \in T : Cardinality(t.depends_on \cap IdToTaskKeys(T)) <= 1

\* the placement part of C16: with dangling references _order_tasks returns,
\* and the order is the one of the same tasks without those references
DanglingEdgeIgnored ==
    (entry = "order_tasks" /\ pc = "done" /\ DanglingRefs(tasks) # {}) =>
        /\ Len(ordered) = Cardinality(tasks)
        /\ AtMostOneDepEach(tasks) => ordered = DetOrder(WithoutDangling(tasks))

\* C16: a depends_on id that names no input task is not fatal: _order_tasks
\* returns, logs the dangling reference, ignores the edge and places the task
\* as if the dependency had not been declared.
C16_DanglingLoggedAndIgnored ==
    /\ DanglingEdgeIgnored
    /\ (entry = "order_tasks" /\ pc = "done") =>
          \A d \in DanglingRefs(tasks) :
             \E e \in 1..Len(log) : log[e].at = d /\ log[e].what # "cycle"

---------------------------------------------------------------------------
(* Properties of the statistics helpers *)

\* simple_change_point was called and has returned
ChangePointCalled == entry = "simple_change_point" /\ pc = "done"

\* C17: whenever simple_change_point reports an index (best_split is not
\* null), for a series of length n and window w it satisfies w <= index < n - w.
C17_ChangePointIndexInRange ==
    (ChangePointCalled /\ fcall.res.best_split # NoneNum) =>
        /\ fcall.window <= fcall.res.best_split.value
        /\ fcall.res.best_split.value < Len(fcall.values) - fcall.window

\* the last admissible index is reported although a larger change lies later
C17_Witness ==
    /\ ChangePointCalled
    /\ fcall.window = 2 /\ Len(fcall.values) = 5
    /\ fcall.res.best_split = Num(2)
    /\ fcall.values[5] = 3 /\ fcall.values[4] = 0

\* cohen_d was called and has returned
CohenDCalled == entry = "cohen_d" /\ pc = "done"

\* C18: cohen_d returns exactly 0 when baseline and test segment are both
\* constant (the pooled standard deviation is zero), also when their means
\* differ, and when the two segments together have at most 2 points; it does
\* not return NaN for such inputs.
C18_CohenDZeroWhenPooledSdZero ==
    CohenDCalled =>
        LET a == fcall.a
            b == fcall.b
        IN (\/ SegN(a) + SegN(b) <= 2
            \/ IsConstant(a) /\ IsConstant(b) /\ SegN(a) >= 1 /\ SegN(b) >= 1)
           => fcall.res = FNum(0)

\* lines 287-348 were run on the segments of Scenario A: twenty readings of
\* 0.10, then twenty of 0.04
ScenarioA ==
    /\ entry = "evaluate_segments" /\ pc = "done"
    /\ fcall.a = Seg(20, 0) /\ fcall.b = Seg(0, 20)

\* C19: Scenario A, baseline twenty values 0.10 and test twenty values 0.04:
\* method "t-test", p-value below 0.01, effect size negative of large
\* magnitude (0.8 or more), relative_change_pct about -60, status VALIDATED.
C19_ScenarioA ==
    ScenarioA =>
        LET r == vcall.out.result IN
        /\ r.validation.method = "t-test"
        /\ PLess(r.validation.p_value, 10)
        /\ r.validation.effect_size <= -80
        /\ r.validation.relative_change_pct \in -61..-59
        /\ r.validation.n_baseline = 20 /\ r.validation.n_test = 20
        /\ r.status = "VALIDATED"

C19_Witness ==
    /\ ScenarioA
    /\ vcall.thresholds.keys = {}
    /\ vcall.out.result.status = "VALIDATED"
    /\ vcall.out.result.validation.effect_size = -RoundingBlowUp

\* the option `key` as the configuration surface documents it: the configured
\* value when the option is set, else the default
Documented(thresh, key, default) ==
    IF key \in thresh.keys THEN thresh.vals[key] ELSE default
\* the evaluator the documented option names give
DocumentedEvaluator(thresh) ==
    [p_value_threshold |->
        Documented(thresh, "p_value_threshold", DEFAULT_P_VALUE_THRESHOLD),
     ctr_drop_pct_threshold |->
        Documented(thresh, "ctr_drop_pct_threshold", DEFAULT_CTR_DROP_PCT_THRESHOLD),
     min_samples_for_ttest |->
        Documented(thresh, "min_samples_for_ttest", DEFAULT_MIN_SAMPLES_FOR_TTEST),
     bootstrap_iters |->
        Documented(thresh, "bootstrap_iters", DEFAULT_BOOTSTRAP_ITERS),
     rolling_window_days |->
        Documented(thresh, "rolling_window_days", DEFAULT_ROLLING_WINDOW_DAYS)]

\* the defaults and the options other than the magnitude cutoff take effect
\* under their documented names
OtherOptionsTakeEffect ==
    ValidateCalled =>
        \A key \in {"p_value_threshold", "min_samples_for_ttest", "bootstrap_iters",
                    "rolling_window_days"} :
           evaluator[key] = DocumentedEvaluator(vcall.thresholds)[key]

\* C20: each recognized option takes effect under its documented name, the
\* default when absent; ctr_drop_pct_threshold is the cutoff the
\* threshold-evidence VALIDATED rule compares |relative change %| against.
C20_OptionsTakeEffect ==
    "ctr_drop_pct" \notin vcall.thresholds.keys =>
    /\ ValidateCalled => evaluator = DocumentedEvaluator(vcall.thresholds)
    /\ Computed =>
          vcall.out.result.status =
             DecideStatus(DocumentedEvaluator(vcall.thresholds), vcall.st.p,
                          vcall.st.rel, vcall.st.d, vcall.ts.rows)

---------------------------------------------------------------------------
(* Scope of the series, calibration, impact *)

\* C21: validate fetches the ctr series for the scope of the hypothesis' task:
\* the series filtered to the campaign for a task scoped to one campaign, the
\* unfiltered series (campaign None) only for a task scoped to all campaigns.
C21_SeriesOfTaskScope ==
    entry = "run" =>
        \A k \in 1..Len(evaluated) :
           LET task == TaskById(evaluated[k].task_id) IN
           evaluated[k].campaign =
              IF task.scope = "all_campaigns" THEN None ELSE task.scope

\* C22: on the computed path confidence_final is initial_confidence + A + B - C
\* clipped to [0, 1], with A = +0.25 if p < 0.01, else +0.12 if p < 0.05, else
\* -0.12; B = +0.2 if |d| >= 0.8, else +0.1 if |d| >= 0.5, else 0; C = 0.15 if
\* the sample count is below 30, else 0. The cut-offs 0.01 and 0.05 do not
\* follow the configured p_value_threshold.
C22_ConfidenceCalibration ==
    Computed =>
        LET p == vcall.st.p
            d == vcall.st.d
            n == vcall.ts.rows
            A == IF p # PNaN /\ p < 10 THEN 25
                 ELSE IF p # PNaN /\ p < 50 THEN 12 ELSE -12
            B == IF d >= 80 \/ d <= -80 THEN 20
                 ELSE IF d >= 50 \/ d <= -50 THEN 10 ELSE 0
            C == IF n < 30 THEN 15 ELSE 0
            raw == vcall.hyp.initial_confidence + A + B - C
        IN vcall.out.result.confidence_final =
              IF raw < 0 THEN 0 ELSE IF raw > 100 THEN 100 ELSE raw

\* p = 0.009 is above the configured p_value_threshold 0.005 and still earns
\* +0.25; the series of 29 points pays the penalty
C22_Witness ==
    /\ Computed
    /\ evaluator.p_value_threshold = 5
    /\ vcall.st.p = 9 /\ vcall.st.d = -50 /\ vcall.ts.rows = 29
    /\ vcall.hyp.initial_confidence = 40
    /\ vcall.out.result.confidence_final = 60

\* C23: impact is one of low, medium, high: "medium" if the relative change is
\* undefined (baseline mean 0); otherwise "high" if |delta %| > 25 and
\* |d| > 0.5 and p < 0.05; otherwise "medium" if |delta %| > 10 and |d| > 0.3;
\* otherwise "low"; all comparisons strict. The fallback results have "low".
\* delta % is the change _build_evidence reports as ctr_delta_pct (line 124),
\* the number validate hands to _compute_impact (line 332).
C23_ImpactClassification ==
    /\ ValidateCalled => vcall.out.result.impact \in {"low", "medium", "high"}
    /\ (DataUnavailable \/ StepRaised) => vcall.out.result.impact = "low"
    /\ Computed =>
          LET p == vcall.st.p
              d == Abs(vcall.st.d)
              delta == Abs(vcall.st.delta)
          IN /\ vcall.out.result.evidence.ctr_delta_pct =
                   IF vcall.st.baseline_zero THEN NoneNum ELSE Num(vcall.st.delta)
             /\ vcall.out.result.impact =
                   IF vcall.st.baseline_zero THEN "medium"
                   ELSE IF delta > 25 /\ d > 50 /\ p # PNaN /\ p < 50 THEN "high"
                   ELSE IF delta > 10 /\ d > 30 THEN "medium"
                   ELSE "low"

\* a change of exactly 25 % with a large effect is not "high"
C23_Witness ==
    /\ Computed
    /\ ~vcall.st.baseline_zero
    /\ vcall.st.delta = -25 /\ vcall.st.d = -80 /\ vcall.st.p = 0
    /\ vcall.out.result.impact = "medium"

---------------------------------------------------------------------------
(* Split and test method *)

\* _split_baseline_test was called on a series of at least 2 points
SplitCalled ==
    entry = "split_baseline_test" /\ pc = "done" /\ Len(fcall.values) >= 2

\* the part of C24 that does not depend on the size of the baseline: the
\* split keeps the order, loses nothing and leaves no segment empty
SplitIsChronological ==
    SplitCalled =>
        LET baseline == fcall.res.baseline
            test == fcall.res.test
        IN /\ baseline \o test = fcall.values
           /\ Len(baseline) >= 1 /\ Len(test) >= 1
           /\ \A i \in 1..Len(baseline) : \A j \in 1..Len(test) : baseline[i] < test[j]

\* C24: the series is split chronologically, never reordered: for n >= 2
\* points the baseline is the first max(1, floor(0.7 n)) points and the test
\* segment all remaining points; baseline followed by test is the series, both
\* are non-empty and every baseline point precedes every test point.
C24_SplitFirstSeventyPercent ==
    /\ SplitIsChronological
    /\ SplitCalled =>
          LET n == Len(fcall.values)
              k == IF (7 * n) \div 10 >= 1 THEN (7 * n) \div 10 ELSE 1
          IN /\ fcall.res.baseline = SubSeq(fcall.values, 1, k)
             /\ fcall.res.test = SubSeq(fcall.values, k + 1, n)

\* lines 287-348 have run: in a call of validate or on two given segments
StatisticsRun == Computed \/ (entry = "evaluate_segments" /\ pc = "done")
\* bootstrap_pvalue was called and has returned
BootstrapCalled == entry = "bootstrap_pvalue" /\ pc = "done"
\* two calls of bootstrap_pvalue with the same arguments
SameArguments(c, d) ==
    c.a = d.a /\ c.b = d.b /\ c.n_iter = d.n_iter /\ c.seed = d.seed

\* C25: the test method is "t-test" if and only if baseline and test segment
\* both have at least min_samples_for_ttest points, and "bootstrap" in every
\* other case; the bootstrap is run with bootstrap_iters resamples and the
\* fixed seed, its p-value lies in [0, 1], and the same segments always give
\* the same p-value.
C25_TestMethod ==
    /\ StatisticsRun =>
          LET v == vcall.out.result.validation
              both == /\ v.n_baseline >= evaluator.min_samples_for_ttest
                      /\ v.n_test >= evaluator.min_samples_for_ttest
          IN /\ v.method = "t-test" <=> both
             /\ ~both =>
                   /\ v.method = "bootstrap"
                   /\ vcall.out.test = [method |-> "bootstrap",
                                        n_iter |-> evaluator.bootstrap_iters,
                                        seed |-> BootstrapSeed]
                   /\ v.p_value \in 0..1000
    /\ BootstrapCalled =>
          /\ \A c \in {fcall.first, fcall.last} :
                /\ c.res.den = c.n_iter
                /\ 0 <= c.res.num /\ c.res.num <= c.res.den
          /\ SameArguments(fcall.first, fcall.last) => fcall.first.res = fcall.last.res

\* bootstrap_pvalue was called twice on the same segments and gave 1/2 both times
C25_BootstrapWitness ==
    /\ BootstrapCalled
    /\ fcall.calls = 2
    /\ SameArguments(fcall.first, fcall.last)
    /\ fcall.first.a = <<1>> /\ fcall.first.b = <<3>>
    /\ fcall.last.res = [num |-> 1, den |-> 2]

\* the statistics of a series of 34 points with min_samples_for_ttest = 10:
\* 23 and 11 points, t-test; and of 29 points: 20 and 9, bootstrap
C25_Witness ==
    /\ Computed
    /\ vcall.ts.rows = 29 /\ evaluator.min_samples_for_ttest = 10
    /\ vcall.out.result.validation.method = "bootstrap"
    /\ vcall.out.test.n_iter = DEFAULT_BOOTSTRAP_ITERS

---------------------------------------------------------------------------
(* The change-point heuristic as a whole *)

\* the windows left and right of index i, as sums and counts of their numbers
LeftSum(values, w, i) == SumOver(values, SliceIdx(Len(values), i - w, i))
LeftCount(values, w, i) == CountOver(values, SliceIdx(Len(values), i - w, i))
RightSum(values, w, i) == SumOver(values, SliceIdx(Len(values), i, i + w))
RightCount(values, w, i) == CountOver(values, SliceIdx(Len(values), i, i + w))
\* the relative difference (right mean - left mean) / left mean at index i,
\* as numerator and denominator
RelNum(values, w, i) ==
    RightSum(values, w, i) * LeftCount(values, w, i)
       - LeftSum(values, w, i) * RightCount(values, w, i)
RelDen(values, w, i) == RightCount(values, w, i) * LeftSum(values, w, i)
\* index i is a candidate with a relative difference: window w fits on both
\* sides, the left mean is defined and non-zero, the right mean is defined
Comparable(values, w, i) ==
    /\ w <= i /\ i < Len(values) - w
    /\ LeftCount(values, w, i) # 0 /\ LeftSum(values, w, i) # 0
    /\ RightCount(values, w, i) # 0
\* |rel at i| > |rel at j|
LargerAt(values, w, i, j) ==
    Abs(RelNum(values, w, i)) * RelDen(values, w, j)
       > Abs(RelNum(values, w, j)) * RelDen(values, w, i)

\* C26: simple_change_point on a series shorter than 2 * window reports no
\* change-point (best_split null, relative_change 0) and a note that the
\* series is too short; otherwise it reports, among the indices whose left
\* mean is defined and non-zero, the one with the largest absolute relative
\* difference of right and left mean, the earliest on ties, with that value,
\* and no change-point when no index has a non-zero relative difference.
C26_ChangePointReport ==
    ChangePointCalled =>
        LET values == fcall.values
            w == fcall.window
            res == fcall.res
            C == {i \in 0..(Len(values) - 1) :
                     Comparable(values, w, i) /\ RelNum(values, w, i) # 0}
        IN IF Len(values) < 2 * w
           THEN /\ res.best_split = NoneNum
                /\ res.relative_change.num = 0
                /\ res.method_note = "timeseries too short for change-point heuristic"
           ELSE IF C = {}
           THEN /\ res.best_split = NoneNum
                /\ res.relative_change.num = 0
                /\ res.method_note = "rolling-window heuristic"
           ELSE /\ res.best_split # NoneNum
                /\ res.method_note = "rolling-window heuristic"
                /\ LET b == res.best_split.value IN
                   /\ b \in C
                   /\ \A j \in C : ~LargerAt(values, w, j, b)
                   /\ \A j \in C : j < b => LargerAt(values, w, b, j)
                   /\ res.relative_change.num * RelDen(values, w, b)
                         = RelNum(values, w, b) * res.relative_change.den

\* indices 1 and 3 have the same relative difference +2; index 1 is reported
C26_Witness ==
    /\ ChangePointCalled
    /\ fcall.window = 1
    /\ Len(fcall.values) = 5
    /\ SubSeq(fcall.values, 1, 4) = <<1, 3, 1, 3>>
    /\ fcall.res.best_split = Num(1)
    /\ fcall.res.relative_change = [num |-> 2, den |-> 1]

---------------------------------------------------------------------------
(* Retries *)

\* safe_generate is in progress or over
InSafeGenerate == entry = "safe_generate"

\* C27: safe_generate calls generate_text at most retries + 1 times; it
\* returns the result of the first attempt that succeeds and makes no attempt
\* after it; when all retries + 1 attempts fail it raises the exception of the
\* last one; after each failed attempt it sleeps backoff * (1 + attempt).
\* Nothing else retries: run calls the generator once per task and the
\* evaluator once per generated hypothesis.
C27_SafeGenerateRetries ==
    /\ InSafeGenerate =>
          /\ fcall.calls <= fcall.retries + 1
          /\ \A k \in 1..Len(fcall.sleeps) : fcall.sleeps[k] = fcall.backoff * k
          /\ fcall.outcome = "running" =>
                /\ pc = "llm_attempt"
                /\ Len(fcall.sleeps) = fcall.calls
                /\ ENABLED (GenerateTextReturns \/ GenerateTextRaises
                               \/ RaiseLastException)
          /\ fcall.outcome = "returned" =>
                /\ pc = "done"
                /\ fcall.value = [result_of_attempt |-> fcall.calls - 1]
                /\ Len(fcall.sleeps) = fcall.calls - 1
                /\ ~ENABLED (GenerateTextReturns \/ GenerateTextRaises)
          /\ fcall.outcome = "raised" =>
                /\ pc = "done"
                /\ fcall.calls = fcall.retries + 1
                /\ Len(fcall.sleeps) = fcall.retries + 1
                /\ fcall.value = [exception_of_attempt |-> fcall.retries]
                /\ ~ENABLED (GenerateTextReturns \/ GenerateTextRaises)
    /\ entry = "run" =>
          /\ Len(evaluated) <= Len(generated)
          /\ \A k \in 1..Len(evaluated) :
                /\ evaluated[k].hyp = generated[k].hyp
                /\ evaluated[k].task_id = generated[k].task_id
          /\ \A j, k \in 1..Len(tasks_executed) :
                j # k => tasks_executed[j].task_id # tasks_executed[k].task_id

\* two attempts failed, the third succeeded
C27_Witness ==
    /\ InSafeGenerate /\ pc = "done"
    /\ fcall.retries = 2 /\ fcall.backoff = 5
    /\ fcall.outcome = "returned"
    /\ fcall.calls = 3
    /\ fcall.sleeps = <<5, 10>>

\* all attempts failed and the last exception was raised
C27_RaisedWitness ==
    /\ InSafeGenerate /\ pc = "done"
    /\ fcall.retries = 2 /\ fcall.backoff = 10
    /\ fcall.outcome = "raised"
    /\ fcall.sleeps = <<10, 20, 30>>

\* the ledger errors recorded for the k-th hypothesis
ErrorsOfHypothesis(k) == {e \in 1..Len(errors) : error_hyp[e] = k}
\* the ledger errors of the task loop
LoopErrors == {e \in 1..Len(errors) : errors[e].stage # "build_report"}

\* C28: in run a hypothesis whose evaluator.validate call raised never
\* triggers creative generation (its synthesized status is INCONCLUSIVE), so
\* every hypothesis adds at most one entry to the ledger errors, and the
\* number of ledger errors of the task loop is at most the number of tasks
\* whose generation failed plus the number of hypotheses evaluated.
C28_AtMostOneErrorPerHypothesis ==
    entry = "run" =>
        /\ \A k \in 1..Len(evaluated) :
              /\ evaluated[k].raised =>
                    /\ insights_results[k].status = "INCONCLUSIVE"
                    /\ GeneratorCalls(k) = {}
                    /\ CreativeErrors(k) = {}
                    /\ \A c \in 1..Len(creatives_results) :
                          creatives_results[c].for_hypothesis # k
              /\ Cardinality(ErrorsOfHypothesis(k)) <= 1
        /\ \A e \in 1..Len(errors) :
              "hypothesis_id" \in DOMAIN errors[e] <=> error_hyp[e] \in 1..Len(evaluated)
        /\ Cardinality(LoopErrors) <= Cardinality(gen_failed) + Len(evaluated)
        /\ pc # "done" => Cardinality(LoopErrors) = Len(errors)

\* a failed generation, a raising validate and a failed creative step in one
\* run: three ledger errors for one failed task and two hypotheses of one id
C28_Witness ==
    /\ entry = "run" /\ TaskLoopDone
    /\ Cardinality(gen_failed) = 1
    /\ Len(evaluated) = 2
    /\ evaluated[1].raised /\ evaluated[1].hyp.driver = "creative_fatigue"
    /\ evaluated[1].hyp.id = evaluated[2].hyp.id
    /\ CreativeErrors(2) # {}
    /\ Len(errors) = 3

---------------------------------------------------------------------------
(* The significance cutoff, and dependencies end to end *)

\* C29: whatever p_value_threshold and magnitude cutoff are configured, a
\* result whose p-value is greater than or equal to p_value_threshold is never
\* VALIDATED: p_value_threshold is the significance cutoff of every VALIDATED
\* verdict, the strong-evidence rule included.
C29_ThresholdBoundsEveryValidated ==
    (StatisticsRun /\ (vcall.st.p = PNaN \/ vcall.st.p >= evaluator.p_value_threshold))
        => vcall.out.result.status # "VALIDATED"

\* position of task id x in run's execution record
ExecutedAt(x) == CHOOSE k \in 1..Len(tasks_executed) : tasks_executed[k].task_id = x

\* the fallback plan runs t1, then t2
FallbackPlanInOrder ==
    (LoopEnded /\ plan_raw = FallbackPlan) =>
        /\ Len(tasks_executed) = 2
        /\ ExecutedAt("t1") < ExecutedAt("t2")

\* C30: a dependency declared in the plan reaches the scheduler: when the
\* planner builds task T with depends_on [U], U is in the plan too and there
\* is no cycle, run executes U before T, also when T has the smaller priority
\* number; in particular the fallback plan executes t1 before t2.
C30_PlanDependencyHonoured ==
    /\ FallbackPlanInOrder
    /\ (LoopEnded /\ ~HasCycle(plan_raw)) =>
          \A T \in plan_raw : \A U \in plan_raw :
             U.id \in T.depends_on => ExecutedAt(U.id) < ExecutedAt(T.id)

====
